---- MODULE Spec2Model ----
(***************************************************************************)
(* Model of the secure storage and key-management core of ark:             *)
(*   - the authenticated encryption primitive and the KDF (package crypto) *)
(*   - the encrypted key-value store (package storage, type Database)      *)
(*   - the master key lifecycle (package config, Config.GetMasterKey)      *)
(*   - the directory lock/unlock engine (package dirlock)                  *)
(* Byte strings are symbolic: a key records how it was derived, a sealed   *)
(* ciphertext records the key, nonce and plaintext it was sealed from, and *)
(* opening succeeds only under that key and nonce with the tag intact.     *)
(***************************************************************************)
EXTENDS Integers, Sequences, FiniteSets, TLC

VARIABLES
    db,         \* the bbolt file: bucket name -> (key -> EncryptedBlob)
    enc,        \* Database.enc: the key of the open handle's Encryptor
    ret,        \* what the last operation returned
    hist,       \* per (bucket,key): the last successful Set/Delete (history)
    steps,      \* number of operations performed so far
    now,        \* the wall clock, in seconds
    configYaml, \* the file config.yaml: the fields Save serialized
    cacheFile,  \* the file data/.master_key_cache
    cfg,        \* the Config value of the running command
    cacheNote,  \* how the cache file came to its present bytes (history)
    pwOf,       \* per salt: the master password it was set up with (history)
    fs,         \* the file system: path -> directory tree, regular file or nothing
    isRoot,     \* whether the process runs with uid 0 (file modes do not bind it)
    backup,     \* the bytes Database.Backup returned, and what the store showed then
    procs       \* the commands running at the same time, and the file locks held

storeVars == <<db, enc, hist>>
keyVars == <<now, configYaml, cacheFile, cfg, cacheNote, pwOf>>
lockVars == <<fs, isRoot>>
moreVars == <<backup, procs>>
vars == <<db, enc, ret, hist, steps, now, configYaml, cacheFile, cfg, cacheNote, pwOf,
          fs, isRoot, backup, procs>>

(***************************************************************************)
(* Bounds of the model                                                     *)
(***************************************************************************)
MaxOps == 3
MaxBackupOps == 4
MaxProcOps == 3
FlockTriesPerSecond == 2
MaxCryptoOps == 5
MaxNonceOps == 4
MaxFrameOps == 4
MaxSearchOps == 3

(***************************************************************************)
(* package crypto                                                          *)
(***************************************************************************)
KeySize == 32
NonceSize == 12
SaltSize == 32

Ok(v) == [ok |-> TRUE, v |-> v, err |-> "nil"]
Err(zero, e) == [ok |-> FALSE, v |-> zero, err |-> e]

\* Salts: a length and the random bytes (an identifier); id 0 is all zero bytes.
MkSalt(n, i) == [len |-> n, id |-> i]
NoSalt == MkSalt(0, 0)

\* Keys: a length and the derivation the bytes came from.
MkKey(n, src, pw, salt, dir) ==
    [len |-> n, src |-> src, pw |-> pw, salt |-> salt, dir |-> dir]
NoKey == MkKey(0, "nil", "", NoSalt, "")

\* The nonces crypto/rand can return (two stand for the 2^96).
Nonces == {"n1", "n2"}

\* Plaintexts are tagged byte strings; NoBytes is the nil slice.
Bytes(kind, body) == [kind |-> kind, body |-> body]
NoBytes == Bytes("nil", [none |-> TRUE])

\* gcm.Seal: the ciphertext and tag, bound to key, nonce and plaintext.
Seal(k, n, p) == [k |-> k, n |-> n, p |-> p, tag |-> "ok"]

\* Mutant of Open: the tag is not verified.
OpenIgnoresTag(k, n, ct) ==
    IF ct.k = k /\ ct.n = n
    THEN Ok(ct.p)
    ELSE Err(NoBytes, "cipher: message authentication failed")

\* gcm.Open: authenticates under (k, n) and returns the plaintext.
Open(k, n, ct) ==
    IF ct.tag = "ok" /\ ct.k = k /\ ct.n = n
    THEN Ok(ct.p)
    ELSE Err(NoBytes, "cipher: message authentication failed")

\* Mutant of NewEncryptor: every key AES takes is accepted.
NewEncryptorAnyAesKey(key) ==
    IF key.len \notin {16, 24, 32} THEN Err(NoKey, "invalid key size") ELSE Ok(key)

NewEncryptor(key) ==
    IF key.len # KeySize THEN Err(NoKey, "invalid key size") ELSE Ok(key)

\* Encryptor.Encrypt with the nonce rand.Reader returned: nonce || ciphertext+tag.
Encrypt(key, nonce, plaintext) ==
    [short |-> FALSE, nonce |-> nonce, ct |-> Seal(key, nonce, plaintext)]

Decrypt(key, blob) ==
    IF blob.short
    THEN Err(NoBytes, "ciphertext too short")
    ELSE LET r == Open(key, blob.nonce, blob.ct)
         IN  IF r.ok THEN r ELSE Err(NoBytes, "failed to decrypt")

\* A damaged nonce or ciphertext+tag, or a file cut off inside the nonce; the
\* damaged bytes are bytes no encryption call wrote.
Corrupt(blob, kind) ==
    CASE kind = "nonce" -> [blob EXCEPT !.nonce = "damaged"]
      [] kind = "tag" -> [blob EXCEPT !.ct.tag = "flipped"]
      [] OTHER -> [blob EXCEPT !.short = TRUE]

\* A blob that differs from the one written: a changed nonce (to bytes no
\* call drew, or to the other nonce), changed ciphertext bytes, a changed
\* tag, a blob cut off inside the ciphertext, or cut off inside the nonce.
Tamper(blob, kind) ==
    CASE kind = "other nonce" ->
           [blob EXCEPT !.nonce = CHOOSE n \in Nonces : n # blob.nonce]
      [] kind = "ciphertext" ->
           [blob EXCEPT !.ct.p = Bytes("damaged", [none |-> TRUE]), !.ct.tag = "mismatch"]
      [] kind = "cut" -> [blob EXCEPT !.ct.tag = "cut"]
      [] OTHER -> Corrupt(blob, kind)

DeriveKey(password, salt) ==
    IF salt.len # SaltSize
    THEN Err(NoKey, "invalid salt size")
    ELSE Ok(MkKey(KeySize, "argon2id", password, salt, ""))

(***************************************************************************)
(* encoding/json as the store uses it.  A Go value is a record with its    *)
(* type; a JSON document holds only the fields the struct tags serialize.  *)
(***************************************************************************)
GoString(s) == [type |-> "string", s |-> s]
GoFunc == [type |-> "func"]
LockedDirectory(path, password, useMaster, hidden, encrypted, metadata) ==
    [type |-> "LockedDirectory", Path |-> path, Password |-> password,
     UseMaster |-> useMaster, Hidden |-> hidden, Encrypted |-> encrypted,
     Metadata |-> metadata]

\* A map[string]interface{} without keys: nil, or what make returns.
NoMetadata == [m \in {} |-> m]

\* models.VaultEntry; times are seconds of the wall clock, 0 the zero time.
\* Metadata is created empty and is filled by SetMetadata alone.
VaultEntry(key, value, format, description, tags, createdAt, updatedAt) ==
    [type |-> "VaultEntry", Key |-> key, Value |-> value, Format |-> format,
     Description |-> description, Tags |-> tags, Metadata |-> NoMetadata,
     CreatedAt |-> createdAt, UpdatedAt |-> updatedAt]

Zero(destType) ==
    IF destType = "LockedDirectory"
    THEN LockedDirectory("", "", FALSE, FALSE, FALSE, "")
    ELSE IF destType = "VaultEntry"
    THEN VaultEntry("", "", "", "", <<>>, 0, 0)
    ELSE GoString("")

\* A field tagged omitempty is written only when it is not the empty value.
OmitEmpty(name, v, empty) == IF v = empty THEN [n \in {} |-> v] ELSE [n \in {name} |-> v]

\* The values of an interface{} in use: a Go string, a Go int, and the float64
\* that encoding/json decodes every JSON number into.
GoInt(n) == [go |-> "int", n |-> n]
GoFloat64(n) == [go |-> "float64", n |-> n]
GoText(x) == [go |-> "string", s |-> x]

\* json.Marshal of an interface{}: a string literal or a number literal.
EncodeAny(x) == IF x.go = "string" THEN [j |-> "string", s |-> x.s] ELSE [j |-> "number", n |-> x.n]
\* json.Unmarshal into an interface{}: string for a string, float64 for a number.
DecodeAny(x) == IF x.j = "string" THEN GoText(x.s) ELSE GoFloat64(x.n)
EncodeMap(m) == [k \in DOMAIN m |-> EncodeAny(m[k])]
DecodeMap(m) == [k \in DOMAIN m |-> DecodeAny(m[k])]

\* json.Marshal: Password carries the tag json:"-" and is left out.
Marshal(v) ==
    CASE v.type = "string" ->
            Ok(Bytes("json", [t |-> "string", s |-> v.s]))
      [] v.type = "LockedDirectory" ->
            Ok(Bytes("json", [t |-> "object", path |-> v.Path,
                              use_master |-> v.UseMaster, hidden |-> v.Hidden,
                              encrypted |-> v.Encrypted, metadata |-> v.Metadata]))
      [] v.type = "VaultEntry" ->
            Ok(Bytes("json", [t |-> "object", key |-> v.Key, value |-> v.Value,
                              format |-> v.Format, created_at |-> v.CreatedAt,
                              updated_at |-> v.UpdatedAt]
                             @@ OmitEmpty("description", v.Description, "")
                             @@ OmitEmpty("tags", v.Tags, <<>>)
                             @@ OmitEmpty("metadata", EncodeMap(v.Metadata), NoMetadata)))
      [] OTHER -> Err(NoBytes, "json: unsupported type")

Field(obj, name, zero) == IF name \in DOMAIN obj THEN obj[name] ELSE zero

\* json.Unmarshal into a fresh value of type destType.
Unmarshal(data, destType) ==
    IF data.kind # "json"
    THEN Err(Zero(destType), "invalid character")
    ELSE IF destType = "string"
    THEN IF data.body.t = "string"
         THEN Ok(GoString(data.body.s))
         ELSE Err(Zero(destType), "json: cannot unmarshal")
    ELSE IF destType = "VaultEntry"
    THEN IF data.body.t = "object"
         THEN Ok([VaultEntry(Field(data.body, "key", ""),
                             Field(data.body, "value", ""),
                             Field(data.body, "format", ""),
                             Field(data.body, "description", ""),
                             Field(data.body, "tags", <<>>),
                             Field(data.body, "created_at", 0),
                             Field(data.body, "updated_at", 0))
                    EXCEPT !.Metadata = DecodeMap(Field(data.body, "metadata", NoMetadata))])
         ELSE Err(Zero(destType), "json: cannot unmarshal")
    ELSE IF data.body.t = "object"
         THEN Ok(LockedDirectory(Field(data.body, "path", ""), "",
                                 Field(data.body, "use_master", FALSE),
                                 Field(data.body, "hidden", FALSE),
                                 Field(data.body, "encrypted", FALSE),
                                 Field(data.body, "metadata", "")))
         ELSE Err(Zero(destType), "json: cannot unmarshal")

(***************************************************************************)
(* package storage: Database over bbolt                                    *)
(***************************************************************************)
BucketNames ==
    {"vault", "aws_profiles", "ec2_instances", "locked_dirs",
     "backup_metadata", "config"}

EmptyBucket == [k \in {} |-> k]

\* Mutant of Put: an existing key keeps its old value (insert, not upsert).
PutKeepOld(bkt, k, x) ==
    [kk \in DOMAIN bkt \cup {k} |-> IF kk \in DOMAIN bkt THEN bkt[kk] ELSE x]

\* Mutant of Put: the bucket is written anew with the one record.
PutAlone(bkt, k, x) == [kk \in {k} |-> x]

\* bbolt Bucket.Put / Bucket.Delete on the key -> value map of one bucket.
Put(bkt, k, x) == [kk \in DOMAIN bkt \cup {k} |-> IF kk = k THEN x ELSE bkt[kk]]
Remove(bkt, k) == [kk \in DOMAIN bkt \ {k} |-> bkt[kk]]

\* initBuckets: CreateBucketIfNotExists for each of the six buckets.
initBuckets(d) ==
    [b \in DOMAIN d \cup BucketNames |-> IF b \in DOMAIN d THEN d[b] ELSE EmptyBucket]

\* Database.Set: marshal, encrypt, put inside one write transaction.
DBSet(d, e, nonce, bucket, key, value) ==
    LET data == Marshal(value)
    IN  IF ~data.ok THEN [db |-> d, err |-> "failed to marshal value"]
        ELSE IF bucket \notin DOMAIN d THEN [db |-> d, err |-> "bucket not found"]
        ELSE [db |-> [d EXCEPT ![bucket] = Put(d[bucket], key, Encrypt(e, nonce, data.v))],
              err |-> "nil"]

\* Mutant of DBGet: the error of Decrypt is dropped and decoding goes on.
DBGetIgnoreDecryptErr(d, e, bucket, key, destType) ==
    IF bucket \notin DOMAIN d
    THEN [err |-> "bucket not found", val |-> Zero(destType)]
    ELSE IF key \notin DOMAIN d[bucket]
    THEN [err |-> "key not found", val |-> Zero(destType)]
    ELSE LET u == Unmarshal(Decrypt(e, d[bucket][key]).v, destType)
         IN  IF ~u.ok
             THEN [err |-> "failed to unmarshal data", val |-> Zero(destType)]
             ELSE [err |-> "nil", val |-> u.v]

\* Database.Get: read the blob, decrypt, unmarshal into dest.
DBGet(d, e, bucket, key, destType) ==
    IF bucket \notin DOMAIN d
    THEN [err |-> "bucket not found", val |-> Zero(destType)]
    ELSE IF key \notin DOMAIN d[bucket]
    THEN [err |-> "key not found", val |-> Zero(destType)]
    ELSE LET plain == Decrypt(e, d[bucket][key])
         IN  IF ~plain.ok
             THEN [err |-> "failed to decrypt data", val |-> Zero(destType)]
             ELSE LET u == Unmarshal(plain.v, destType)
                  IN  IF ~u.ok
                      THEN [err |-> "failed to unmarshal data", val |-> Zero(destType)]
                      ELSE [err |-> "nil", val |-> u.v]

\* Mutant of DBDelete: deleting a key that is not there is an error.
DBDeleteMissingKeyIsError(d, bucket, key) ==
    IF bucket \notin DOMAIN d
    THEN [db |-> d, err |-> "bucket not found"]
    ELSE IF key \notin DOMAIN d[bucket]
    THEN [db |-> d, err |-> "key not found"]
    ELSE [db |-> [d EXCEPT ![bucket] = Remove(d[bucket], key)], err |-> "nil"]

\* Database.Delete: bbolt deletes the key; an absent key is no error.
DBDelete(d, bucket, key) ==
    IF bucket \notin DOMAIN d
    THEN [db |-> d, err |-> "bucket not found"]
    ELSE [db |-> [d EXCEPT ![bucket] = Remove(d[bucket], key)], err |-> "nil"]

\* Mutant of DBExists: tests the bucket for any record, not the key.
DBExistsAnyKey(d, bucket, key) ==
    IF bucket \notin DOMAIN d
    THEN [err |-> "bucket not found", exists |-> FALSE]
    ELSE [err |-> "nil", exists |-> DOMAIN d[bucket] # {}]

\* Database.Exists: data != nil.
DBExists(d, bucket, key) ==
    IF bucket \notin DOMAIN d
    THEN [err |-> "bucket not found", exists |-> FALSE]
    ELSE [err |-> "nil", exists |-> key \in DOMAIN d[bucket]]

\* The keys in use, in byte order: the order of a bbolt cursor.
ByteOrder ==
    <<"/d1", "/f1", "/none", "A", "a", "aAb", "ab", "ba", "bab", "k1", "k2">>
InBucket(bkt) == LET Present(k) == k \in DOMAIN bkt IN SelectSeq(ByteOrder, Present)

\* Database.List: the keys of the bucket, as ForEach visits them.
DBList(d, bucket) ==
    IF bucket \notin DOMAIN d
    THEN [err |-> "bucket not found", keys |-> <<>>]
    ELSE [err |-> "nil", keys |-> InBucket(d[bucket])]

\* The bytes of the key names and patterns in use (string(key), pattern).
Chars ==
    [w \in {"", "A", "a", "b", "Ab", "ab", "ba", "aAb", "bab", "abab"} |->
        CASE w = "" -> <<>>
          [] w = "A" -> <<"A">>
          [] w = "a" -> <<"a">>
          [] w = "b" -> <<"b">>
          [] w = "Ab" -> <<"A", "b">>
          [] w = "ab" -> <<"a", "b">>
          [] w = "ba" -> <<"b", "a">>
          [] w = "aAb" -> <<"a", "A", "b">>
          [] w = "bab" -> <<"b", "a", "b">>
          [] w = "abab" -> <<"a", "b", "a", "b">>]

\* s[i:j] of Go on a sequence of bytes: the bytes i .. j-1, counted from 0.
Slice(s, i, j) == SubSeq(s, i + 1, j)

\* containsSubstring: the loop over i = 0 .. len(s)-len(substr).
containsSubstring(s, substr) ==
    \E i \in 0..(Len(s) - Len(substr)) : Slice(s, i, i + Len(substr)) = substr

\* Mutant of contains: only the whole string, its head and its tail are compared.
containsAtEnds(s, substr) ==
    /\ Len(s) >= Len(substr)
    /\ \/ s = substr
       \/ /\ Len(s) > Len(substr)
          /\ \/ Slice(s, 0, Len(substr)) = substr
             \/ Slice(s, Len(s) - Len(substr), Len(s)) = substr

\* contains: equal, or longer and with substr as head, tail or anywhere.
contains(s, substr) ==
    /\ Len(s) >= Len(substr)
    /\ \/ s = substr
       \/ /\ Len(s) > Len(substr)
          /\ \/ Slice(s, 0, Len(substr)) = substr
             \/ Slice(s, Len(s) - Len(substr), Len(s)) = substr
             \/ containsSubstring(s, substr)

\* Database.Search: ForEach over the bucket, keeping the keys contains accepts.
DBSearch(d, bucket, pattern) ==
    IF bucket \notin DOMAIN d
    THEN [err |-> "bucket not found", keys |-> <<>>]
    ELSE LET Match(k) == contains(Chars[k], Chars[pattern])
         IN  [err |-> "nil", keys |-> SelectSeq(InBucket(d[bucket]), Match)]

\* Database.Backup: tx.WriteTo inside one read transaction writes the whole
\* file as of that transaction.
DBBackup(d) == Ok(Bytes("bbolt", [buckets |-> d]))

\* Mutant of DBRestore: the keys the file holds and the backup does not stay.
DBRestoreKeepsNewKeys(d, data, fault) ==
    IF fault = "os.WriteFile/open"
    THEN [db |-> d, err |-> "failed to write backup data"]
    ELSE IF fault = "os.WriteFile/write"
    THEN [db |-> initBuckets([b \in {} |-> EmptyBucket]),
          err |-> "failed to write backup data"]
    ELSE IF data.kind # "bbolt"
    THEN [db |-> d, err |-> "failed to open database for restore"]
    ELSE [db |-> [b \in DOMAIN d |->
                     [k \in DOMAIN d[b] \cup DOMAIN data.body.buckets[b] |->
                         IF k \in DOMAIN data.body.buckets[b]
                         THEN data.body.buckets[b][k] ELSE d[b][k]]],
          err |-> "nil"]

\* Database.Restore: close, os.WriteFile(d.path, data), bbolt.Open.  A
\* WriteFile that cannot open the file leaves it as it was; one that fails
\* while writing leaves it truncated, which a later NewDatabase opens as an
\* empty store.
DBRestore(d, data, fault) ==
    IF fault = "os.WriteFile/open"
    THEN [db |-> d, err |-> "failed to write backup data"]
    ELSE IF fault = "os.WriteFile/write"
    THEN [db |-> initBuckets([b \in {} |-> EmptyBucket]),
          err |-> "failed to write backup data"]
    ELSE IF data.kind # "bbolt"
    THEN [db |-> d, err |-> "failed to open database for restore"]
    ELSE [db |-> data.body.buckets, err |-> "nil"]

(***************************************************************************)
(* package vault: VaultManager over the bucket "vault".  t is what         *)
(* time.Now returns during the call; a fault of "db.Update" is the write   *)
(* transaction of the store failing.                                       *)
(***************************************************************************)
\* strings.ToLower on the format names in use.
ToLower(x) == IF x = "JSON" THEN "json" ELSE x

isValidFormat(format) == ToLower(format) \in {"json", "yaml", "text"}

NewVaultEntry(key, value, format, t) == VaultEntry(key, value, format, "", <<>>, t, t)

SetDescription(entry, desc, t) ==
    [entry EXCEPT !.Description = desc, !.UpdatedAt = t]

\* Mutant of AddTag: the tag is appended whether the entry has it or not.
AddTagAgain(entry, tag, t) ==
    [entry EXCEPT !.Tags = Append(@, tag), !.UpdatedAt = t]

\* VaultEntry.AddTag: a tag the entry has already is not added again.
AddTag(entry, tag, t) ==
    IF \E i \in 1..Len(entry.Tags) : entry.Tags[i] = tag
    THEN entry
    ELSE [entry EXCEPT !.Tags = Append(@, tag), !.UpdatedAt = t]

\* The index of the first tag equal to tag, 0 when there is none.
FirstTag(tags, tag) ==
    IF \E i \in 1..Len(tags) : tags[i] = tag
    THEN CHOOSE i \in 1..Len(tags) :
            tags[i] = tag /\ \A j \in 1..(i - 1) : tags[j] # tag
    ELSE 0

\* VaultEntry.RemoveTag: the first tag equal to tag is cut out, then break.
RemoveTag(entry, tag, t) ==
    LET i == FirstTag(entry.Tags, tag)
    IN  IF i = 0 THEN entry
        ELSE [entry EXCEPT !.Tags = SubSeq(@, 1, i - 1) \o SubSeq(@, i + 1, Len(@)),
                           !.UpdatedAt = t]

\* VaultEntry.SetMetadata: e.Metadata[key] = value
EntrySetMetadata(entry, metaKey, value, t) ==
    [entry EXCEPT !.Metadata = [k \in DOMAIN @ \cup {metaKey} |->
                                    IF k = metaKey THEN value ELSE @[k]],
                  !.UpdatedAt = t]

\* for _, tag := range tags { entry.AddTag(tag) }
RECURSIVE AddTags(_, _, _)
AddTags(entry, tags, t) ==
    IF tags = <<>> THEN entry
    ELSE AddTags(AddTag(entry, Head(tags), t), Tail(tags), t)

\* vm.db.Set("vault", key, entry), which a fault keeps from committing
VaultPut(d, e, nonce, key, entry, fault) ==
    IF fault = "db.Update"
    THEN [db |-> d, err |-> "write: failed"]
    ELSE DBSet(d, e, nonce, "vault", key, entry)

\* VaultManager.Set
VMSet(d, e, nonce, t, key, value, format, description, tags, fault) ==
    IF ~isValidFormat(format)
    THEN [db |-> d, err |-> "invalid format"]
    ELSE VaultPut(d, e, nonce, key,
                  AddTags(SetDescription(NewVaultEntry(key, value, format, t),
                                         description, t), tags, t),
                  fault)

\* VaultManager.Get: reads the entry, sets UpdatedAt and writes the entry
\* back; the error of that write is not looked at.
VMGet(d, e, nonce, t, key, fault) ==
    LET got == DBGet(d, e, "vault", key, "VaultEntry")
        entry == [got.val EXCEPT !.UpdatedAt = t]
        put == VaultPut(d, e, nonce, key, entry, fault)
    IN  IF got.err # "nil"
        THEN [db |-> d, err |-> "failed to get vault entry", cause |-> got.err,
              entry |-> Zero("VaultEntry"), wrote |-> "none"]
        ELSE [db |-> put.db, err |-> "nil", cause |-> "nil", entry |-> entry,
              wrote |-> put.err]

\* for _, key := range keys { entry, err := vm.Get(key); if err != nil
\* { continue }; entries = append(entries, entry) }
RECURSIVE GetEach(_, _, _, _, _, _)
GetEach(d, e, nonce, t, keys, fault) ==
    IF keys = <<>>
    THEN [db |-> d, entries |-> <<>>, skipped |-> <<>>, wrote |-> <<>>]
    ELSE LET g == VMGet(d, e, nonce, t, Head(keys), fault)
             rest == GetEach(g.db, e, nonce, t, Tail(keys), fault)
         IN  [db |-> rest.db,
              entries |-> IF g.err = "nil" THEN <<g.entry>> \o rest.entries
                          ELSE rest.entries,
              skipped |-> IF g.err = "nil" THEN rest.skipped
                          ELSE <<g.cause>> \o rest.skipped,
              wrote |-> IF g.err = "nil" THEN <<g.wrote>> \o rest.wrote
                        ELSE rest.wrote]

\* VaultManager.List
VMList(d, e, nonce, t, fault) ==
    LET listed == DBList(d, "vault")
        each == GetEach(d, e, nonce, t, listed.keys, fault)
    IN  IF listed.err # "nil"
        THEN [db |-> d, err |-> "failed to list vault keys", entries |-> <<>>,
              skipped |-> <<>>, wrote |-> <<>>]
        ELSE [db |-> each.db, err |-> "nil", entries |-> each.entries,
              skipped |-> each.skipped, wrote |-> each.wrote]

\* VaultManager.Delete
VMDelete(d, key, fault) ==
    LET exists == DBExists(d, "vault", key)
    IN  IF exists.err # "nil"
        THEN [db |-> d, err |-> "failed to check if entry exists"]
        ELSE IF ~exists.exists
        THEN [db |-> d, err |-> "not found"]
        ELSE IF fault = "db.Update"
        THEN [db |-> d, err |-> "write: failed"]
        ELSE DBDelete(d, "vault", key)

\* Mutant of VMUpdate: a key that is not in the vault is created.
VMUpdateCreates(d, e, nonce, t, key, value, format, description, tags, fault) ==
    LET exists == DBExists(d, "vault", key)
        got == VMGet(d, e, nonce, t, key, fault)
        entry == AddTags([SetDescription([got.entry EXCEPT !.Value = value,
                                                            !.Format = format],
                                         description, t)
                             EXCEPT !.Tags = <<>>],
                         tags, t)
    IN  IF exists.err # "nil"
        THEN [db |-> d, err |-> "failed to check if entry exists"]
        ELSE IF ~exists.exists
        THEN VMSet(d, e, nonce, t, key, value, format, description, tags, fault)
        ELSE IF got.err # "nil"
        THEN [db |-> d, err |-> "failed to get existing entry"]
        ELSE VaultPut(got.db, e, nonce, key, entry, fault)

\* Mutant of VMUpdate: the given tags are added to the tags the entry has.
VMUpdateMergesTags(d, e, nonce, t, key, value, format, description, tags, fault) ==
    LET exists == DBExists(d, "vault", key)
        got == VMGet(d, e, nonce, t, key, fault)
        entry == AddTags(SetDescription([got.entry EXCEPT !.Value = value,
                                                           !.Format = format],
                                        description, t),
                         tags, t)
    IN  IF exists.err # "nil"
        THEN [db |-> d, err |-> "failed to check if entry exists"]
        ELSE IF ~exists.exists
        THEN [db |-> d, err |-> "not found"]
        ELSE IF got.err # "nil"
        THEN [db |-> d, err |-> "failed to get existing entry"]
        ELSE VaultPut(got.db, e, nonce, key, entry, fault)

\* VaultManager.Update: the format is stored as given.
VMUpdate(d, e, nonce, t, key, value, format, description, tags, fault) ==
    LET exists == DBExists(d, "vault", key)
        got == VMGet(d, e, nonce, t, key, fault)
        entry == AddTags([SetDescription([got.entry EXCEPT !.Value = value,
                                                            !.Format = format],
                                         description, t)
                             EXCEPT !.Tags = <<>>],
                         tags, t)
    IN  IF exists.err # "nil"
        THEN [db |-> d, err |-> "failed to check if entry exists"]
        ELSE IF ~exists.exists
        THEN [db |-> d, err |-> "not found"]
        ELSE IF got.err # "nil"
        THEN [db |-> d, err |-> "failed to get existing entry"]
        ELSE VaultPut(got.db, e, nonce, key, entry, fault)

\* VaultManager.AddTag: Get, entry.AddTag, db.Set
VMAddTag(d, e, nonce, t, key, tag, fault) ==
    LET got == VMGet(d, e, nonce, t, key, fault)
    IN  IF got.err # "nil"
        THEN [db |-> d, err |-> "failed to get vault entry"]
        ELSE VaultPut(got.db, e, nonce, key, AddTag(got.entry, tag, t), fault)

\* VaultManager.RemoveTag: Get, entry.RemoveTag, db.Set
VMRemoveTag(d, e, nonce, t, key, tag, fault) ==
    LET got == VMGet(d, e, nonce, t, key, fault)
    IN  IF got.err # "nil"
        THEN [db |-> d, err |-> "failed to get vault entry"]
        ELSE VaultPut(got.db, e, nonce, key, RemoveTag(got.entry, tag, t), fault)

\* VaultManager.SetMetadata: Get, entry.SetMetadata, db.Set
VMSetMetadata(d, e, nonce, t, key, metaKey, value, fault) ==
    LET got == VMGet(d, e, nonce, t, key, fault)
    IN  IF got.err # "nil"
        THEN [db |-> d, err |-> "failed to get vault entry"]
        ELSE VaultPut(got.db, e, nonce, key,
                      EntrySetMetadata(got.entry, metaKey, value, t), fault)

(***************************************************************************)
(* package config: Config, config.yaml and the master key cache file       *)
(***************************************************************************)
DefaultTimeout == 300
ConfigDir == "~/.ark"

\* BackupKey is Backup.EncryptionKey, 32 random bytes like a salt.
MkConfig(dir, salt, key, timeout) ==
    [ConfigDir |-> dir, Salt |-> salt, MasterKey |-> key,
     PasswordCacheTimeout |-> timeout, BackupKey |-> NoSalt]
NoConfig == MkConfig("", NoSalt, NoKey, 0)

DefaultConfig(dir) == MkConfig(dir, NoSalt, NoKey, DefaultTimeout)

\* Initialize(configDir, masterPassword), with the salt and the backup key
\* GenerateSalt returned.
Initialize(dir, masterPassword, salt, backupKey) ==
    [DefaultConfig(dir) EXCEPT !.Salt = salt,
                               !.MasterKey = DeriveKey(masterPassword, salt).v,
                               !.BackupKey = backupKey]

NoYaml == [exists |-> FALSE,
           doc |-> [salt |-> NoSalt, password_cache_timeout_seconds |-> 0]]

\* Mutant of Save: the copy's MasterKey is not cleared and is serialized.
SaveWithMasterKey(c) ==
    [exists |-> TRUE,
     doc |-> [salt |-> c.Salt,
              password_cache_timeout_seconds |-> c.PasswordCacheTimeout,
              master_key |-> c.MasterKey]]

\* Config.Save: what yaml.Marshal writes of the copy without sensitive data;
\* MasterKey and ConfigDir carry the tag yaml:"-".
Save(c) ==
    [exists |-> TRUE,
     doc |-> [salt |-> c.Salt,
              password_cache_timeout_seconds |-> c.PasswordCacheTimeout]]

\* Load(configDir): the parsed file, with the default timeout if not set.
Load(dir, file) ==
    MkConfig(dir, file.doc.salt, NoKey,
             IF file.doc.password_cache_timeout_seconds <= 0
             THEN DefaultTimeout
             ELSE file.doc.password_cache_timeout_seconds)

\* The salts GenerateSalt has returned to this installation.
FullSalts == {MkSalt(SaltSize, i) : i \in {1, 2}}

\* s[16:] of a 32-byte salt s; s[:16] is MkSalt(16, s.id).
SaltTail(s) == MkSalt(16, 0 - s.id)

\* A directory whose path is ConfigDir followed by the bytes s[:16].
DirWithSaltHead(s) == ConfigDir \o "+salt" \o ToString(s.id) \o "[:16]"

\* The bytes of a path and of a salt, the salt in runs of 16 bytes.
PathBytes(path) == [path |-> path, id |-> 0, part |-> "path"]
SaltHalf(id, part) == [path |-> "", id |-> id, part |-> part]
SaltBytes(s) ==
    IF s.len = SaltSize THEN <<SaltHalf(s.id, "head"), SaltHalf(s.id, "tail")>>
    ELSE IF s.len = 16
    THEN IF s.id < 0 THEN <<SaltHalf(0 - s.id, "tail")>> ELSE <<SaltHalf(s.id, "head")>>
    ELSE <<>>
DirBytes(dir) ==
    IF \E s \in FullSalts : dir = DirWithSaltHead(s)
    THEN LET s == CHOOSE x \in FullSalts : dir = DirWithSaltHead(x)
         IN  <<PathBytes(ConfigDir), SaltHalf(s.id, "head")>>
    ELSE <<PathBytes(dir)>>

\* []byte(c.ConfigDir + string(c.Salt)): the two joined with nothing between.
CacheKeyData(dir, salt) == DirBytes(dir) \o SaltBytes(salt)

\* getCacheEncryptionKey: sha256(ConfigDir + Salt).  Two Configs get one key
\* exactly when the joined bytes are the same; a key whose bytes are those of
\* ConfigDir and one of its salts is written with that directory and salt.
getCacheEncryptionKey(c) ==
    LET data == CacheKeyData(c.ConfigDir, c.Salt)
        same == {s \in FullSalts : CacheKeyData(ConfigDir, s) = data}
    IN  IF same # {}
        THEN MkKey(KeySize, "sha256", "", CHOOSE s \in same : TRUE, ConfigDir)
        ELSE MkKey(KeySize, "sha256", "", c.Salt, c.ConfigDir)

NoFile == [exists |-> FALSE, blob |-> Encrypt(NoKey, "n1", NoBytes)]

\* json.Marshal / json.Unmarshal of cacheEntry{Key, ExpiresAt}.
MarshalCacheEntry(key, expiresAt) ==
    Bytes("json", [t |-> "object", key |-> key, expires_at |-> expiresAt])
UnmarshalCacheEntry(data) ==
    IF data.kind = "json" /\ data.body.t = "object"
    THEN Ok([Key |-> data.body.key, ExpiresAt |-> data.body.expires_at])
    ELSE Err([Key |-> NoKey, ExpiresAt |-> 0], "failed to unmarshal cache")

\* Mutant of loadCachedMasterKey: the entry expires at ExpiresAt, not after it.
loadCachedMasterKeyExpiresEarly(c, file, t) ==
    LET plaintext == Decrypt(getCacheEncryptionKey(c), file.blob)
        entry == UnmarshalCacheEntry(plaintext.v)
    IN  IF ~file.exists
        THEN [ok |-> FALSE, key |-> NoKey, err |-> "cache not found", removed |-> FALSE]
        ELSE IF ~plaintext.ok \/ ~entry.ok
        THEN [ok |-> FALSE, key |-> NoKey, err |-> "failed to decrypt cache", removed |-> TRUE]
        ELSE IF t >= entry.v.ExpiresAt
        THEN [ok |-> FALSE, key |-> NoKey, err |-> "cache expired", removed |-> TRUE]
        ELSE [ok |-> TRUE, key |-> entry.v.Key, err |-> "nil", removed |-> FALSE]

\* Mutant of loadCachedMasterKey: a file that does not decrypt or decode is
\* left in place.
loadCachedMasterKeyKeepsBadFile(c, file, t) ==
    LET plaintext == Decrypt(getCacheEncryptionKey(c), file.blob)
        entry == UnmarshalCacheEntry(plaintext.v)
    IN  IF ~file.exists
        THEN [ok |-> FALSE, key |-> NoKey, err |-> "cache not found", removed |-> FALSE]
        ELSE IF ~plaintext.ok \/ ~entry.ok
        THEN [ok |-> FALSE, key |-> NoKey, err |-> "failed to decrypt cache", removed |-> FALSE]
        ELSE IF t > entry.v.ExpiresAt
        THEN [ok |-> FALSE, key |-> NoKey, err |-> "cache expired", removed |-> TRUE]
        ELSE [ok |-> TRUE, key |-> entry.v.Key, err |-> "nil", removed |-> FALSE]

\* loadCachedMasterKey at time t: the key, or an error; removed tells whether
\* os.Remove(cachePath) was called.
loadCachedMasterKey(c, file, t) ==
    LET encryptor == NewEncryptor(getCacheEncryptionKey(c))
        plaintext == Decrypt(encryptor.v, file.blob)
        entry == UnmarshalCacheEntry(plaintext.v)
    IN  IF ~file.exists
        THEN [ok |-> FALSE, key |-> NoKey, err |-> "cache not found", removed |-> FALSE]
        ELSE IF ~encryptor.ok
        THEN [ok |-> FALSE, key |-> NoKey, err |-> "failed to create encryptor", removed |-> TRUE]
        ELSE IF ~plaintext.ok
        THEN [ok |-> FALSE, key |-> NoKey, err |-> "failed to decrypt cache", removed |-> TRUE]
        ELSE IF ~entry.ok
        THEN [ok |-> FALSE, key |-> NoKey, err |-> "failed to unmarshal cache", removed |-> TRUE]
        ELSE IF t > entry.v.ExpiresAt
        THEN [ok |-> FALSE, key |-> NoKey, err |-> "cache expired", removed |-> TRUE]
        ELSE [ok |-> TRUE, key |-> entry.v.Key, err |-> "nil", removed |-> FALSE]

\* saveCachedMasterKey at time t with the nonce drawn; writeOk tells whether
\* MkdirAll and WriteFile succeeded.
saveCachedMasterKey(c, masterKey, timeoutSeconds, t, nonce, writeOk) ==
    LET data == MarshalCacheEntry(masterKey, t + timeoutSeconds)
        encryptor == NewEncryptor(getCacheEncryptionKey(c))
    IN  IF ~encryptor.ok
        THEN Err(NoFile, "failed to create encryptor")
        ELSE IF ~writeOk
        THEN Err(NoFile, "failed to write cache file")
        ELSE Ok([exists |-> TRUE, blob |-> Encrypt(encryptor.v, nonce, data)])

\* password.GetMasterPassword with what was typed; an empty line is an error.
GetMasterPassword(typed) ==
    IF typed = "" THEN Err("", "password cannot be empty") ELSE Ok(typed)

\* Mutant of GetMasterKey: the password is asked for before the Salt is looked at.
GetMasterKeyPromptsFirst(c, file, t, typed, nonce, writeOk) ==
    LET cached == loadCachedMasterKey(c, file, t)
        left == IF cached.removed THEN NoFile ELSE file
        masterPassword == GetMasterPassword(typed)
        masterKey == DeriveKey(masterPassword.v, c.Salt)
        timeout == IF c.PasswordCacheTimeout <= 0
                   THEN DefaultTimeout ELSE c.PasswordCacheTimeout
        saved == saveCachedMasterKey(c, masterKey.v, timeout, t, nonce, writeOk)
        out(cc, ff, e, k, asked, rm, wr) ==
            [cfg |-> cc, file |-> ff, err |-> e, key |-> k,
             prompted |-> asked, removed |-> rm, wrote |-> wr]
    IN  IF c.MasterKey.len > 0
        THEN out(c, file, "nil", c.MasterKey, FALSE, FALSE, FALSE)
        ELSE IF cached.ok /\ cached.key.len > 0
        THEN out([c EXCEPT !.MasterKey = cached.key], left, "nil", cached.key,
                 FALSE, cached.removed, FALSE)
        ELSE IF ~masterPassword.ok
        THEN out(c, left, "failed to get master password", NoKey, TRUE,
                 cached.removed, FALSE)
        ELSE IF c.Salt.len = 0
        THEN out(c, left, "no salt found in config", NoKey, TRUE, cached.removed, FALSE)
        ELSE IF ~masterKey.ok
        THEN out(c, left, "failed to derive master key", NoKey, TRUE,
                 cached.removed, FALSE)
        ELSE out([c EXCEPT !.MasterKey = masterKey.v],
                 IF saved.ok THEN saved.v ELSE left,
                 "nil", masterKey.v, TRUE, cached.removed, saved.ok)

\* Mutant of GetMasterKey: the error of saveCachedMasterKey is returned.
GetMasterKeyFailsOnCacheWrite(c, file, t, typed, nonce, writeOk) ==
    LET cached == loadCachedMasterKey(c, file, t)
        left == IF cached.removed THEN NoFile ELSE file
        masterPassword == GetMasterPassword(typed)
        masterKey == DeriveKey(masterPassword.v, c.Salt)
        timeout == IF c.PasswordCacheTimeout <= 0
                   THEN DefaultTimeout ELSE c.PasswordCacheTimeout
        saved == saveCachedMasterKey(c, masterKey.v, timeout, t, nonce, writeOk)
        out(cc, ff, e, k, asked, rm, wr) ==
            [cfg |-> cc, file |-> ff, err |-> e, key |-> k,
             prompted |-> asked, removed |-> rm, wrote |-> wr]
    IN  IF c.MasterKey.len > 0
        THEN out(c, file, "nil", c.MasterKey, FALSE, FALSE, FALSE)
        ELSE IF cached.ok /\ cached.key.len > 0
        THEN out([c EXCEPT !.MasterKey = cached.key], left, "nil", cached.key,
                 FALSE, cached.removed, FALSE)
        ELSE IF c.Salt.len = 0
        THEN out(c, left, "no salt found in config", NoKey, FALSE, cached.removed, FALSE)
        ELSE IF ~masterPassword.ok
        THEN out(c, left, "failed to get master password", NoKey, TRUE,
                 cached.removed, FALSE)
        ELSE IF ~masterKey.ok
        THEN out(c, left, "failed to derive master key", NoKey, TRUE,
                 cached.removed, FALSE)
        ELSE IF ~saved.ok
        THEN out(c, left, "failed to save cache", NoKey, TRUE, cached.removed, FALSE)
        ELSE out([c EXCEPT !.MasterKey = masterKey.v],
                 IF saved.ok THEN saved.v ELSE left,
                 "nil", masterKey.v, TRUE, cached.removed, saved.ok)

\* Mutant of GetMasterKey: the key held in memory is not looked at.
GetMasterKeySkipsMemory(c, file, t, typed, nonce, writeOk) ==
    LET cached == loadCachedMasterKey(c, file, t)
        left == IF cached.removed THEN NoFile ELSE file
        masterPassword == GetMasterPassword(typed)
        masterKey == DeriveKey(masterPassword.v, c.Salt)
        timeout == IF c.PasswordCacheTimeout <= 0
                   THEN DefaultTimeout ELSE c.PasswordCacheTimeout
        saved == saveCachedMasterKey(c, masterKey.v, timeout, t, nonce, writeOk)
        out(cc, ff, e, k, asked, rm, wr) ==
            [cfg |-> cc, file |-> ff, err |-> e, key |-> k,
             prompted |-> asked, removed |-> rm, wrote |-> wr]
    IN  IF cached.ok /\ cached.key.len > 0
        THEN out([c EXCEPT !.MasterKey = cached.key], left, "nil", cached.key,
                 FALSE, cached.removed, FALSE)
        ELSE IF c.Salt.len = 0
        THEN out(c, left, "no salt found in config", NoKey, FALSE, cached.removed, FALSE)
        ELSE IF ~masterPassword.ok
        THEN out(c, left, "failed to get master password", NoKey, TRUE,
                 cached.removed, FALSE)
        ELSE IF ~masterKey.ok
        THEN out(c, left, "failed to derive master key", NoKey, TRUE,
                 cached.removed, FALSE)
        ELSE out([c EXCEPT !.MasterKey = masterKey.v],
                 IF saved.ok THEN saved.v ELSE left,
                 "nil", masterKey.v, TRUE, cached.removed, saved.ok)

\* Config.GetMasterKey at time t: memory, then the disk cache, then the prompt.
GetMasterKey(c, file, t, typed, nonce, writeOk) ==
    LET cached == loadCachedMasterKey(c, file, t)
        left == IF cached.removed THEN NoFile ELSE file
        masterPassword == GetMasterPassword(typed)
        masterKey == DeriveKey(masterPassword.v, c.Salt)
        timeout == IF c.PasswordCacheTimeout <= 0
                   THEN DefaultTimeout ELSE c.PasswordCacheTimeout
        saved == saveCachedMasterKey(c, masterKey.v, timeout, t, nonce, writeOk)
        out(cc, ff, e, k, asked, rm, wr) ==
            [cfg |-> cc, file |-> ff, err |-> e, key |-> k,
             prompted |-> asked, removed |-> rm, wrote |-> wr]
    IN  IF c.MasterKey.len > 0
        THEN out(c, file, "nil", c.MasterKey, FALSE, FALSE, FALSE)
        ELSE IF cached.ok /\ cached.key.len > 0
        THEN out([c EXCEPT !.MasterKey = cached.key], left, "nil", cached.key,
                 FALSE, cached.removed, FALSE)
        ELSE IF c.Salt.len = 0
        THEN out(c, left, "no salt found in config", NoKey, FALSE, cached.removed, FALSE)
        ELSE IF ~masterPassword.ok
        THEN out(c, left, "failed to get master password", NoKey, TRUE,
                 cached.removed, FALSE)
        ELSE IF ~masterKey.ok
        THEN out(c, left, "failed to derive master key", NoKey, TRUE,
                 cached.removed, FALSE)
        ELSE out([c EXCEPT !.MasterKey = masterKey.v],
                 IF saved.ok THEN saved.v ELSE left,
                 "nil", masterKey.v, TRUE, cached.removed, saved.ok)

(***************************************************************************)
(* The master key lifecycle in use: commands run one after another, each   *)
(* loading config.yaml into a fresh Config; the clock advances; the cache  *)
(* file may be overwritten with garbage.                                   *)
(***************************************************************************)
MaxKeyOps == 5
ClockStep == 150
MaxTime == 450

SaltIds == {1, 2}
Typed == {"pw1", "pw2", ""}
TimeoutInputs == {-1, 150}
CacheCorruptions == {"nonce", "tag", "truncate", "notjson"}

NoNote == [state |-> "none", T |-> 0, t |-> 0, key |-> NoKey, salt |-> NoSalt]
KeyRet(op, r, typed, at, fresh, pre, salt) ==
    [op |-> op, err |-> r.err, key |-> r.key, prompted |-> r.prompted,
     removed |-> r.removed, wrote |-> r.wrote, typed |-> typed, at |-> at,
     fresh |-> fresh, pre |-> pre, salt |-> salt]
PlainRet(op) ==
    KeyRet(op, [err |-> "nil", key |-> NoKey, prompted |-> FALSE,
                removed |-> FALSE, wrote |-> FALSE], "", now, FALSE, NoNote, NoSalt)

\* GenerateSalt: 32 random bytes, so a salt no configuration had before;
\* of the unused salts the first stands for any.
FreshSalts ==
    {MkSalt(SaltSize, i) : i \in {j \in SaltIds : pwOf[j] = "" /\ \A l \in SaltIds : pwOf[l] = "" => j <= l}}

\* The second GenerateSalt of a call: bytes no salt and no backup key had before.
FreshBackupKeys == {MkSalt(SaltSize, s.id + Cardinality(SaltIds)) : s \in FreshSalts}

\* Mutant of RunInit: isInitialized is not asked; init sets up the directory anew.
RunInitOverwrites(masterPassword, salt, backupKey) ==
    /\ steps < MaxKeyOps
    /\ cfg' = Initialize(ConfigDir, masterPassword, salt, backupKey)
    /\ configYaml' = Save(cfg')
    /\ pwOf' = [pwOf EXCEPT ![salt.id] = masterPassword]
    /\ ret' = PlainRet("Init")
    /\ steps' = steps + 1
    /\ UNCHANGED <<moreVars, now, cacheFile, cacheNote, storeVars, lockVars>>

\* ark init (runInit): nothing when config.yaml exists, else Initialize and Save.
RunInit(masterPassword, salt, backupKey) ==
    /\ steps < MaxKeyOps
    /\ IF configYaml.exists
       THEN UNCHANGED <<moreVars, cfg, configYaml, pwOf>>
       ELSE /\ cfg' = Initialize(ConfigDir, masterPassword, salt, backupKey)
            /\ configYaml' = Save(cfg')
            /\ pwOf' = [pwOf EXCEPT ![salt.id] = masterPassword]
    /\ ret' = PlainRet("Init")
    /\ steps' = steps + 1
    /\ UNCHANGED <<moreVars, now, cacheFile, cacheNote, storeVars, lockVars>>

\* A command starts: config.Load(configDir).
ConfigLoad ==
    /\ steps < MaxKeyOps
    /\ configYaml.exists
    /\ cfg' = Load(ConfigDir, configYaml)
    /\ ret' = PlainRet("Load")
    /\ steps' = steps + 1
    /\ UNCHANGED <<moreVars, now, configYaml, cacheFile, cacheNote, pwOf, storeVars, lockVars>>

\* A Config that was never initialized: DefaultConfig(configDir).
NewDefaultConfig ==
    /\ steps < MaxKeyOps
    /\ cfg' = DefaultConfig(ConfigDir)
    /\ ret' = PlainRet("DefaultConfig")
    /\ steps' = steps + 1
    /\ UNCHANGED <<moreVars, now, configYaml, cacheFile, cacheNote, pwOf, storeVars, lockVars>>

ConfigSave ==
    /\ steps < MaxKeyOps
    /\ cfg # NoConfig
    /\ configYaml' = Save(cfg)
    /\ ret' = PlainRet("Save")
    /\ steps' = steps + 1
    /\ UNCHANGED <<moreVars, now, cacheFile, cfg, cacheNote, pwOf, storeVars, lockVars>>

\* c.GetMasterKey() on the Config c, at the present time.
CallGetMasterKey(c, typed, nonce, writeOk) ==
    \E r \in {GetMasterKey(c, cacheFile, now, typed, nonce, writeOk)} :
        /\ cfg' = r.cfg
        /\ cacheFile' = r.file
        /\ cacheNote' =
              IF r.wrote
              THEN [state |-> "written", T |-> now,
                    t |-> IF c.PasswordCacheTimeout <= 0
                          THEN DefaultTimeout ELSE c.PasswordCacheTimeout,
                    key |-> r.key, salt |-> c.Salt]
              ELSE IF r.removed THEN NoNote ELSE cacheNote
        /\ ret' = KeyRet("GetMasterKey", r, IF r.prompted THEN typed ELSE "",
                         now, c.MasterKey.len = 0, cacheNote, c.Salt)

\* GetMasterKey called again on the Config the program holds.
ConfigGetMasterKey(typed, nonce, writeOk) ==
    /\ steps < MaxKeyOps
    /\ cfg # NoConfig
    /\ CallGetMasterKey(cfg, typed, nonce, writeOk)
    /\ steps' = steps + 1
    /\ UNCHANGED <<moreVars, now, configYaml, pwOf, storeVars, lockVars>>

\* The cache file as another Config meets it: the file was copied to another
\* configuration directory, or config.yaml was replaced by one with another
\* salt, and a command there calls Load and GetMasterKey.  What becomes of
\* the copy is in ret; the files of this installation stay as they are.
ElsewhereDirs == {ConfigDir, "/mnt/ark", DirWithSaltHead(MkSalt(SaltSize, 1))}
ElsewhereSalts ==
    {MkSalt(SaltSize, 1), MkSalt(SaltSize, 2), MkSalt(16, 1), SaltTail(MkSalt(SaltSize, 1))}
CommandElsewhere(dir, salt, typed) ==
    /\ steps < MaxKeyOps
    /\ cacheFile.exists
    /\ \E r \in {GetMasterKey(MkConfig(dir, salt, NoKey, DefaultTimeout), cacheFile,
                               now, typed, "n2", TRUE)} :
          ret' = KeyRet("GetMasterKey elsewhere", r, IF r.prompted THEN typed ELSE "",
                        now, TRUE, cacheNote, salt) @@ [dir |-> dir]
    /\ steps' = steps + 1
    /\ UNCHANGED <<moreVars, now, configYaml, cacheFile, cfg, cacheNote, pwOf,
                   storeVars, lockVars>>

\* A command (runList and the like): config.Load, then cfg.GetMasterKey().
RunCommand(typed, nonce, writeOk) ==
    /\ steps < MaxKeyOps
    /\ configYaml.exists
    /\ CallGetMasterKey(Load(ConfigDir, configYaml), typed, nonce, writeOk)
    /\ steps' = steps + 1
    /\ UNCHANGED <<moreVars, now, configYaml, pwOf, storeVars, lockVars>>

\* What a command did: whether it called GetMasterKey and what that gave,
\* whether it went on to storage.NewDatabase and with which key, and the
\* error the command returned.
CliRet(op, called, got, triedOpen, openedWith, err) ==
    [op |-> op, called |-> called, keyErr |-> got.err, key |-> got.key,
     triedOpen |-> triedOpen, openedWith |-> openedWith, err |-> err]

\* storage.NewDatabase as a command sees it: the error, if any.
OpenErr(masterKey) ==
    IF NewEncryptor(masterKey).ok THEN "nil" ELSE "failed to create encryptor"

\* runList (ark vault list): config.Load, cfg.GetMasterKey, whose error is
\* returned as it is, then storage.NewDatabase with the key it gave.
runList(typed, nonce, writeOk) ==
    /\ steps < MaxKeyOps
    /\ configYaml.exists
    /\ \E r \in {GetMasterKey(Load(ConfigDir, configYaml), cacheFile, now, typed,
                               nonce, writeOk)} :
          /\ cfg' = r.cfg
          /\ cacheFile' = r.file
          /\ cacheNote' =
                IF r.wrote
                THEN [state |-> "written", T |-> now,
                      t |-> Load(ConfigDir, configYaml).PasswordCacheTimeout,
                      key |-> r.key, salt |-> Load(ConfigDir, configYaml).Salt]
                ELSE IF r.removed THEN NoNote ELSE cacheNote
          /\ enc' = IF r.err = "nil" THEN NewEncryptor(r.key).v ELSE enc
          /\ ret' = IF r.err # "nil"
                    THEN CliRet("vault list", TRUE, r, FALSE, NoKey, r.err)
                    ELSE CliRet("vault list", TRUE, r, TRUE, r.key, OpenErr(r.key))
    /\ steps' = steps + 1
    /\ UNCHANGED <<moreVars, now, configYaml, pwOf, db, hist, lockVars>>

\* createCmd (ark backup create): config.Load, the check of the configured
\* bucket, then storage.NewDatabase with cfg.MasterKey as Load left it.
\* s3Bucket is Backup.S3Bucket as config.yaml has it.
BackupBuckets == {"", "bucket"}
createCmd(s3Bucket) ==
    /\ steps < MaxKeyOps
    /\ configYaml.exists
    /\ \E c \in {Load(ConfigDir, configYaml)} :
          /\ cfg' = c
          /\ enc' = IF s3Bucket = "" THEN enc ELSE NewEncryptor(c.MasterKey).v
          /\ ret' = IF s3Bucket = ""
                    THEN CliRet("backup create", FALSE, [err |-> "nil", key |-> NoKey],
                                FALSE, NoKey, "backup not configured")
                    ELSE CliRet("backup create", FALSE, [err |-> "nil", key |-> NoKey],
                                TRUE, c.MasterKey, OpenErr(c.MasterKey))
    /\ steps' = steps + 1
    /\ UNCHANGED <<moreVars, now, configYaml, cacheFile, cacheNote, pwOf, db, hist, lockVars>>

\* ClearPasswordCache(configDir)
ClearPasswordCache ==
    /\ steps < MaxKeyOps
    /\ cacheFile' = NoFile
    /\ cacheNote' = NoNote
    /\ ret' = PlainRet("ClearPasswordCache")
    /\ steps' = steps + 1
    /\ UNCHANGED <<moreVars, now, configYaml, cfg, pwOf, storeVars, lockVars>>

\* Config.SetPasswordCacheTimeout
SetPasswordCacheTimeout(timeoutSeconds) ==
    /\ steps < MaxKeyOps
    /\ cfg # NoConfig
    /\ cfg' = [cfg EXCEPT !.PasswordCacheTimeout =
                             IF timeoutSeconds < 0 THEN 0 ELSE timeoutSeconds]
    /\ ret' = PlainRet("SetPasswordCacheTimeout")
    /\ steps' = steps + 1
    /\ UNCHANGED <<moreVars, now, configYaml, cacheFile, cacheNote, pwOf, storeVars, lockVars>>

\* Mutant of SetMasterPassword: the disk cache is not cleared.
SetMasterPasswordKeepsCache(password, salt, backupKey) ==
    /\ steps < MaxKeyOps
    /\ cfg # NoConfig
    /\ pwOf[salt.id] = ""
    /\ cfg' = [cfg EXCEPT !.Salt = salt, !.MasterKey = DeriveKey(password, salt).v,
                          !.BackupKey = backupKey]
    /\ pwOf' = [pwOf EXCEPT ![salt.id] = password]
    /\ ret' = KeyRet("SetMasterPassword",
                     [err |-> "nil", key |-> cfg'.MasterKey, prompted |-> FALSE,
                      removed |-> FALSE, wrote |-> FALSE],
                     password, now, FALSE, cacheNote, cfg.Salt)
    /\ steps' = steps + 1
    /\ UNCHANGED <<moreVars, now, configYaml, cacheFile, cacheNote, storeVars, lockVars>>

\* Config.SetMasterPassword, with the salt and the backup key GenerateSalt
\* returned: ClearPasswordCache, then the new Salt, MasterKey and backup key.
SetMasterPassword(password, salt, backupKey) ==
    /\ steps < MaxKeyOps
    /\ cfg # NoConfig
    /\ pwOf[salt.id] = ""
    /\ cacheFile' = NoFile
    /\ cacheNote' = NoNote
    /\ cfg' = [cfg EXCEPT !.Salt = salt, !.MasterKey = DeriveKey(password, salt).v,
                          !.BackupKey = backupKey]
    /\ pwOf' = [pwOf EXCEPT ![salt.id] = password]
    /\ ret' = KeyRet("SetMasterPassword",
                     [err |-> "nil", key |-> cfg'.MasterKey, prompted |-> FALSE,
                      removed |-> cacheFile.exists, wrote |-> FALSE],
                     password, now, FALSE, cacheNote, cfg.Salt)
    /\ steps' = steps + 1
    /\ UNCHANGED <<moreVars, now, configYaml, storeVars, lockVars>>

\* config.yaml is edited or damaged outside the program: its salt is cut to
\* 16 bytes.
TruncateYamlSalt ==
    /\ steps < MaxKeyOps
    /\ configYaml.exists
    /\ configYaml.doc.salt.len = SaltSize
    /\ configYaml' = [configYaml EXCEPT !.doc.salt.len = 16]
    /\ ret' = PlainRet("TruncateYamlSalt")
    /\ steps' = steps + 1
    /\ UNCHANGED <<moreVars, now, cacheFile, cfg, cacheNote, pwOf, storeVars, lockVars>>

\* The cache file's bytes are altered outside the program.
CorruptCache(kind) ==
    /\ steps < MaxKeyOps
    /\ cacheFile.exists
    /\ cacheFile' = [cacheFile EXCEPT !.blob =
                        IF kind = "notjson"
                        THEN [@ EXCEPT !.ct.p = Bytes("text", [s |-> "garbage"])]
                        ELSE Corrupt(@, kind)]
    /\ cacheNote' = [cacheNote EXCEPT !.state = "corrupt"]
    /\ ret' = PlainRet("CorruptCache")
    /\ steps' = steps + 1
    /\ UNCHANGED <<moreVars, now, configYaml, cfg, pwOf, storeVars, lockVars>>

Tick ==
    /\ now + ClockStep <= MaxTime
    /\ now' = now + ClockStep
    /\ ret' = PlainRet("Tick")
    /\ UNCHANGED <<moreVars, steps, configYaml, cacheFile, cfg, cacheNote, pwOf, storeVars, lockVars>>

(***************************************************************************)
(* The store in use: one process at a time opens the file with the key it  *)
(* got from GetMasterKey, works on it and exits; the file's bytes may be   *)
(* corrupted between runs.                                                 *)
(***************************************************************************)
InstallSalt == MkSalt(SaltSize, 1)
MasterPasswords == {"pw1", "pw2"}
MasterKeyOf(pw) == DeriveKey(pw, InstallSalt).v

StoreBuckets == {"vault", "config", "nosuch"}
StoreKeys == {"k1", "k2"}
StoreValues ==
    {GoString("s3cr3t"), GoString("other"),
     LockedDirectory("/d1", "dirpw", FALSE, FALSE, TRUE, "mode=encrypted"),
     GoFunc}
DestTypes == {"string", "LockedDirectory"}
Corruptions == {"nonce", "tag", "truncate"}

Cells == (StoreBuckets \cap BucketNames) \X StoreKeys
NoHist == [op |-> "none", v |-> GoString(""), mk |-> NoKey, intact |-> TRUE]

\* NewDatabase(path, masterKey)
NewDatabase(masterKey) ==
    /\ steps < MaxOps
    /\ LET e == NewEncryptor(masterKey)
       IN  /\ enc' = e.v
           /\ db' = IF e.ok THEN initBuckets(db) ELSE db
           /\ ret' = [op |-> "NewDatabase", bucket |-> "", key |-> "",
                      err |-> IF e.ok THEN "nil" ELSE "failed to create encryptor",
                      val |-> GoString(""), dest |-> "string", exists |-> FALSE]
    /\ steps' = steps + 1
    /\ UNCHANGED <<moreVars, hist, keyVars, lockVars>>

StoreSet(b, k, v, nonce) ==
    /\ steps < MaxOps
    /\ enc # NoKey
    /\ \E r \in {DBSet(db, enc, nonce, b, k, v)} :
           /\ db' = r.db
           /\ ret' = [op |-> "Set", bucket |-> b, key |-> k, err |-> r.err,
                      val |-> v, dest |-> v.type, exists |-> FALSE]
           /\ hist' = IF r.err = "nil"
                      THEN [hist EXCEPT ![<<b, k>>] =
                               [op |-> "set", v |-> v, mk |-> enc, intact |-> TRUE]]
                      ELSE hist
    /\ steps' = steps + 1
    /\ UNCHANGED <<moreVars, enc, keyVars, lockVars>>

StoreGet(b, k, destType) ==
    /\ steps < MaxOps
    /\ enc # NoKey
    /\ \E r \in {DBGet(db, enc, b, k, destType)} :
           ret' = [op |-> "Get", bucket |-> b, key |-> k, err |-> r.err,
                   val |-> r.val, dest |-> destType, exists |-> FALSE]
    /\ steps' = steps + 1
    /\ UNCHANGED <<moreVars, db, enc, hist, keyVars, lockVars>>

StoreDelete(b, k) ==
    /\ steps < MaxOps
    /\ enc # NoKey
    /\ \E r \in {DBDelete(db, b, k)} :
           /\ db' = r.db
           /\ ret' = [op |-> "Delete", bucket |-> b, key |-> k, err |-> r.err,
                      val |-> GoString(""), dest |-> "string", exists |-> FALSE]
           /\ hist' = IF r.err = "nil"
                      THEN [hist EXCEPT ![<<b, k>>].op = "delete"]
                      ELSE hist
    /\ steps' = steps + 1
    /\ UNCHANGED <<moreVars, enc, keyVars, lockVars>>

StoreExists(b, k) ==
    /\ steps < MaxOps
    /\ enc # NoKey
    /\ \E r \in {DBExists(db, b, k)} :
           ret' = [op |-> "Exists", bucket |-> b, key |-> k, err |-> r.err,
                   val |-> GoString(""), dest |-> "string", exists |-> r.exists]
    /\ steps' = steps + 1
    /\ UNCHANGED <<moreVars, db, enc, hist, keyVars, lockVars>>

\* The file's bytes for one record are altered outside the program.
StoreCorrupt(b, k, kind) ==
    /\ steps < MaxOps
    /\ b \in DOMAIN db
    /\ k \in DOMAIN db[b]
    /\ db' = [db EXCEPT ![b][k] = Corrupt(@, kind)]
    /\ hist' = [hist EXCEPT ![<<b, k>>].intact = FALSE]
    /\ ret' = [op |-> "Corrupt", bucket |-> b, key |-> k, err |-> "nil",
               val |-> GoString(""), dest |-> "string", exists |-> FALSE]
    /\ steps' = steps + 1
    /\ UNCHANGED <<moreVars, enc, keyVars, lockVars>>

\* Set and Delete with the store as it was before the call kept in ret.
FrameBuckets == {"vault", "config", "nosuch"}
FrameRet(op, b, k, v, err, before) ==
    [op |-> op, bucket |-> b, key |-> k, val |-> v, err |-> err, before |-> before]

FrameSet(b, k, v) ==
    /\ steps < MaxFrameOps
    /\ \E r \in {DBSet(db, enc, "n1", b, k, v)} :
          /\ db' = r.db
          /\ ret' = FrameRet("Set", b, k, v, r.err, db)
    /\ steps' = steps + 1
    /\ UNCHANGED <<moreVars, enc, hist, keyVars, lockVars>>

FrameDelete(b, k) ==
    /\ steps < MaxFrameOps
    /\ \E r \in {DBDelete(db, b, k)} :
          /\ db' = r.db
          /\ ret' = FrameRet("Delete", b, k, GoString(""), r.err, db)
    /\ steps' = steps + 1
    /\ UNCHANGED <<moreVars, enc, hist, keyVars, lockVars>>

\* Searches over a bucket filled with names that share letters.
SearchNames == {"A", "a", "ab", "aAb", "ba", "bab"}
SearchPatterns == {"", "A", "a", "b", "Ab", "ab", "bab", "abab"}
SearchRet(op, b, k, pattern, err, keys) ==
    [op |-> op, bucket |-> b, key |-> k, pattern |-> pattern, err |-> err, keys |-> keys]

SearchSet(k, v) ==
    /\ steps < MaxSearchOps
    /\ \E r \in {DBSet(db, enc, "n1", "vault", k, v)} :
          /\ db' = r.db
          /\ ret' = SearchRet("Set", "vault", k, "", r.err, <<>>)
    /\ steps' = steps + 1
    /\ UNCHANGED <<moreVars, enc, hist, keyVars, lockVars>>

SearchDelete(k) ==
    /\ steps < MaxSearchOps
    /\ \E r \in {DBDelete(db, "vault", k)} :
          /\ db' = r.db
          /\ ret' = SearchRet("Delete", "vault", k, "", r.err, <<>>)
    /\ steps' = steps + 1
    /\ UNCHANGED <<moreVars, enc, hist, keyVars, lockVars>>

Search(b, pattern) ==
    /\ \E r \in {DBSearch(db, b, pattern)} :
          ret' = SearchRet("Search", b, "", pattern, r.err, r.keys)
    /\ UNCHANGED <<moreVars, storeVars, steps, keyVars, lockVars>>

\* What List, Exists and Get show of a store: per bucket the keys listed, and
\* per key whether it exists and what Get into a string returns.
Observe(d, e) ==
    [b \in BucketNames |->
        [list |-> DBList(d, b),
         exists |-> [k \in StoreKeys |-> DBExists(d, b, k)],
         get |-> [k \in StoreKeys |-> DBGet(d, e, b, k, "string")]]]

BackupBucketsInUse == {"vault", "config"}
BackupValues == {GoString("s3cr3t"), GoString("other")}
RestoreFaults == {"none", "os.WriteFile/open", "os.WriteFile/write"}

\* Restore closes the bbolt handle first and returns without a new one when
\* it fails: the process can do nothing more with the Database.
HandleOpen == ~(ret.op = "Restore" /\ ret.err # "nil")

\* db.Backup(): the caller keeps the bytes.
StoreBackup ==
    /\ steps < MaxBackupOps
    /\ enc # NoKey
    /\ HandleOpen
    /\ \E r \in {DBBackup(db)} :
          /\ backup' = [taken |-> TRUE, data |-> r.v, seen |-> Observe(db, enc)]
          /\ ret' = [op |-> "Backup", bucket |-> "", key |-> "", err |-> r.err,
                     val |-> GoString(""), dest |-> "string", exists |-> FALSE]
    /\ steps' = steps + 1
    /\ UNCHANGED <<procs, db, enc, hist, keyVars, lockVars>>

\* db.Restore(data) with the bytes of the last Backup; changed is whether
\* the store differed from the backup when Restore was called.
StoreRestore(fault) ==
    /\ steps < MaxBackupOps
    /\ enc # NoKey
    /\ HandleOpen
    /\ backup.taken
    /\ \E r \in {DBRestore(db, backup.data, fault)} :
          /\ db' = r.db
          /\ ret' = [op |-> "Restore", bucket |-> "", key |-> "", err |-> r.err,
                     val |-> GoString(""), dest |-> "string", exists |-> FALSE,
                     changed |-> Observe(db, enc) # backup.seen]
    /\ steps' = steps + 1
    /\ UNCHANGED <<procs, backup, enc, hist, keyVars, lockVars>>

(***************************************************************************)
(* The vault in use: a command opens the store, builds a VaultManager and  *)
(* calls one of its methods; the clock has moved on by then.               *)
(***************************************************************************)
MaxVaultOps == 3

VaultKeys == StoreKeys
\* The arguments of Set and Update: value, format, description, tags.
VaultArgs ==
    {[value |-> "v1", format |-> "json", description |-> "", tags |-> <<>>],
     [value |-> "v2", format |-> "text", description |-> "d", tags |-> <<"a", "b">>],
     [value |-> "v2", format |-> "JSON", description |-> "d", tags |-> <<"b", "a", "b">>],
     [value |-> "v1", format |-> "xml", description |-> "", tags |-> <<"b">>]}
VaultFaults == {"none", "db.Update"}
VaultDamage == {"tag", "truncate"}

NoArgs == [value |-> "", format |-> "", description |-> "", tags |-> <<>>]
\* What a call was given and returned: prior is the entry the store held for
\* the key before the call, same is whether the call left the store as it
\* was, skipped and wrote are the errors met inside the call.
VaultRet(op, key, args, fault, r, d) ==
    [op |-> op, key |-> key, args |-> args, fault |-> fault, err |-> r.err,
     entry |-> r.entry, entries |-> r.entries, skipped |-> r.skipped,
     wrote |-> r.wrote,
     existed |-> key \in DOMAIN d["vault"],
     prior |-> DBGet(d, enc, "vault", key, "VaultEntry"),
     same |-> r.db = d]
NoResult == [db |-> <<>>, err |-> "nil", entry |-> Zero("VaultEntry"),
             entries |-> <<>>, skipped |-> <<>>, wrote |-> <<>>]

VaultSet(key, a, fault) ==
    /\ steps < MaxVaultOps
    /\ \E r \in {VMSet(db, enc, "n1", now + 1, key, a.value, a.format,
                        a.description, a.tags, fault)} :
          /\ db' = r.db
          /\ ret' = VaultRet("Set", key, a, fault,
                             [NoResult EXCEPT !.db = r.db, !.err = r.err], db)
    /\ now' = now + 1
    /\ steps' = steps + 1
    /\ UNCHANGED <<moreVars, enc, hist, configYaml, cacheFile, cfg, cacheNote, pwOf, lockVars>>

VaultGet(key, fault) ==
    /\ steps < MaxVaultOps
    /\ \E r \in {VMGet(db, enc, "n2", now + 1, key, fault)} :
          /\ db' = r.db
          /\ ret' = VaultRet("Get", key, NoArgs, fault,
                             [NoResult EXCEPT !.db = r.db, !.err = r.err,
                                              !.entry = r.entry,
                                              !.skipped = <<r.cause>>,
                                              !.wrote = <<r.wrote>>], db)
    /\ now' = now + 1
    /\ steps' = steps + 1
    /\ UNCHANGED <<moreVars, enc, hist, configYaml, cacheFile, cfg, cacheNote, pwOf, lockVars>>

VaultList(fault) ==
    /\ steps < MaxVaultOps
    /\ \E r \in {VMList(db, enc, "n2", now + 1, fault)} :
          /\ db' = r.db
          /\ ret' = VaultRet("List", "", NoArgs, fault,
                             [NoResult EXCEPT !.db = r.db, !.err = r.err,
                                              !.entries = r.entries,
                                              !.skipped = r.skipped,
                                              !.wrote = r.wrote], db)
    /\ now' = now + 1
    /\ steps' = steps + 1
    /\ UNCHANGED <<moreVars, enc, hist, configYaml, cacheFile, cfg, cacheNote, pwOf, lockVars>>

VaultDelete(key, fault) ==
    /\ steps < MaxVaultOps
    /\ \E r \in {VMDelete(db, key, fault)} :
          /\ db' = r.db
          /\ ret' = VaultRet("Delete", key, NoArgs, fault,
                             [NoResult EXCEPT !.db = r.db, !.err = r.err], db)
    /\ now' = now + 1
    /\ steps' = steps + 1
    /\ UNCHANGED <<moreVars, enc, hist, configYaml, cacheFile, cfg, cacheNote, pwOf, lockVars>>

VaultUpdate(key, a, fault) ==
    /\ steps < MaxVaultOps
    /\ \E r \in {VMUpdate(db, enc, "n1", now + 1, key, a.value, a.format,
                           a.description, a.tags, fault)} :
          /\ db' = r.db
          /\ ret' = VaultRet("Update", key, a, fault,
                             [NoResult EXCEPT !.db = r.db, !.err = r.err], db)
    /\ now' = now + 1
    /\ steps' = steps + 1
    /\ UNCHANGED <<moreVars, enc, hist, configYaml, cacheFile, cfg, cacheNote, pwOf, lockVars>>

\* The calls on the tags and the metadata of an entry.
TagArgs == {a \in VaultArgs : Len(a.tags) >= 2}
TagNames == {"a", "c"}
MetaKeys == {"owner"}
MetaValues == {GoText("ops"), GoInt(7)}

VaultAddTag(key, tag, fault) ==
    /\ steps < MaxVaultOps
    /\ \E r \in {VMAddTag(db, enc, "n1", now + 1, key, tag, fault)} :
          /\ db' = r.db
          /\ ret' = VaultRet("AddTag", key, [NoArgs EXCEPT !.tags = <<tag>>], fault,
                             [NoResult EXCEPT !.db = r.db, !.err = r.err], db)
    /\ now' = now + 1
    /\ steps' = steps + 1
    /\ UNCHANGED <<moreVars, enc, hist, configYaml, cacheFile, cfg, cacheNote, pwOf, lockVars>>

VaultRemoveTag(key, tag, fault) ==
    /\ steps < MaxVaultOps
    /\ \E r \in {VMRemoveTag(db, enc, "n1", now + 1, key, tag, fault)} :
          /\ db' = r.db
          /\ ret' = VaultRet("RemoveTag", key, [NoArgs EXCEPT !.tags = <<tag>>], fault,
                             [NoResult EXCEPT !.db = r.db, !.err = r.err], db)
    /\ now' = now + 1
    /\ steps' = steps + 1
    /\ UNCHANGED <<moreVars, enc, hist, configYaml, cacheFile, cfg, cacheNote, pwOf, lockVars>>

VaultSetMetadata(key, metaKey, value, fault) ==
    /\ steps < MaxVaultOps
    /\ \E r \in {VMSetMetadata(db, enc, "n1", now + 1, key, metaKey, value, fault)} :
          /\ db' = r.db
          /\ ret' = VaultRet("SetMetadata", key,
                             [NoArgs EXCEPT !.description = metaKey], fault,
                             [NoResult EXCEPT !.db = r.db, !.err = r.err], db)
    /\ now' = now + 1
    /\ steps' = steps + 1
    /\ UNCHANGED <<moreVars, enc, hist, configYaml, cacheFile, cfg, cacheNote, pwOf, lockVars>>

\* The bytes of one vault record are altered outside the program.
VaultCorrupt(key, kind) ==
    /\ steps < MaxVaultOps
    /\ key \in DOMAIN db["vault"]
    /\ db' = [db EXCEPT !["vault"][key] = Corrupt(@, kind)]
    /\ ret' = VaultRet("Corrupt", key, NoArgs, "none", [NoResult EXCEPT !.db = db'], db)
    /\ steps' = steps + 1
    /\ UNCHANGED <<moreVars, now, enc, hist, configYaml, cacheFile, cfg, cacheNote, pwOf, lockVars>>

(***************************************************************************)
(* package dirlock over a file system.  A node of the file system is a     *)
(* directory with the tree below it, a regular file with its bytes, or     *)
(* nothing.  File modes are the octal strings of chmod.                    *)
(***************************************************************************)
Absent == [kind |-> "absent"]
Dir(tree, mode) == [kind |-> "dir", tree |-> tree, mode |-> mode, hidden |-> FALSE]
RegularFile(content, mode) ==
    [kind |-> "file", content |-> content, mode |-> mode, hidden |-> FALSE]

Text(s) == Bytes("text", [s |-> s])
NoEntries == [n \in {} |-> n]
\* A zip archive with its central directory: entry name -> entry bytes.
Zip(entries) == Bytes("zip", [entries |-> entries])
\* The bytes of a zip.Writer that was never closed: the entries, with no
\* central directory after them; zip.NewReader rejects them.
UnclosedZip(entries) == Bytes("zip-unclosed", [entries |-> entries])

\* One step of an operation, in the order the steps ran, and whether it
\* succeeded.
Step(name, ok) == [step |-> name, ok |-> ok]

\* A directory tree: the regular files by relative path, and the directories
\* below the root by relative path.
Tree(files, dirs) == [files |-> files, dirs |-> dirs]
EmptyTree == Tree(NoEntries, {})

\* filepath.Dir on the relative paths in use.
filepathDir(rel) == IF rel = "sub/b.txt" THEN "sub" ELSE "."

\* filepath.Abs with the working directory "/".
filepathAbs(path) == IF path = "d1" THEN "/d1" ELSE path

ArchivePath(dirPath) == dirPath \o ".ark_encrypted"
TempDir(dirPath) == dirPath \o ".ark_temp"

\* os.Open succeeds on a file the caller may read: mode 0000 shuts out
\* every user but root.
CanOpen(node, root) == node.kind # "absent" /\ (root \/ node.mode # "0000")

NoBlob == [short |-> TRUE, nonce |-> "", ct |-> Seal(NoKey, "", NoBytes)]

\* encryptContent: aes.NewCipher(key), then gcm.Seal(nonce, nonce, content, nil).
encryptContent(content, key, nonce) ==
    IF key.len \notin {16, 24, 32}
    THEN Err(NoBlob, "crypto/aes: invalid key size")
    ELSE Ok([short |-> FALSE, nonce |-> nonce, ct |-> Seal(key, nonce, content)])

\* decryptContent: aes.NewCipher(key), split off the nonce, gcm.Open.
decryptContent(encrypted, key) ==
    IF key.len \notin {16, 24, 32}
    THEN Err(NoBytes, "crypto/aes: invalid key size")
    ELSE IF encrypted.short
    THEN Err(NoBytes, "ciphertext too short")
    ELSE Open(key, encrypted.nonce, encrypted.ct)

deriveKeyFromPassword(password, salt) == DeriveKey(password, salt)

\* isEncryptedDirectory: the path opens and reads as a zip archive.
isEncryptedDirectory(fsys, dirPath, root) ==
    /\ CanOpen(fsys[dirPath], root)
    /\ fsys[dirPath].kind = "file"
    /\ fsys[dirPath].content.kind = "zip"

\* EncryptDirectory(dirPath, key) on a directory.  nonces gives the nonce
\* rand.Reader returns for each file; fault names the system call that fails,
\* if one does.  zipWriter.Close and file.Close are deferred: they run when
\* the function returns, after os.RemoveAll and os.Rename, and their errors
\* are dropped.  Until zipWriter.Close the archive has no central directory.
EncryptDirectory(fsys, dirPath, key, nonces, fault) ==
    LET archivePath == ArchivePath(dirPath)
        files == fsys[dirPath].tree.files
        names == DOMAIN files
        sealed == [n \in names |-> encryptContent(files[n], key, nonces[n])]
        entries == [n \in names |-> sealed[n].v]
        created == [fsys EXCEPT ![archivePath] = RegularFile(Zip(NoEntries), "0644")]
        written == [fsys EXCEPT ![archivePath] = RegularFile(Zip(entries), "0644")]
        closeOk == fault # "zipWriter.Close"
        final == RegularFile(IF closeOk THEN Zip(entries) ELSE UnclosedZip(entries),
                             "0644")
        deferred == <<Step("zipWriter.Close", closeOk), Step("file.Close", TRUE)>>
    IN  IF fault = "os.Create"
        THEN [fs |-> fsys, err |-> "open: failed", fired |-> TRUE,
              log |-> <<Step("os.Create", FALSE)>>]
        ELSE IF names # {} /\ fault = "os.ReadFile"
        THEN [fs |-> created, err |-> "read: failed", fired |-> TRUE,
              log |-> <<Step("os.Create", TRUE), Step("filepath.Walk", FALSE),
                        Step("zipWriter.Close", TRUE), Step("file.Close", TRUE)>>]
        ELSE IF \E n \in names : ~sealed[n].ok
        THEN [fs |-> created, err |-> "crypto/aes: invalid key size", fired |-> FALSE,
              log |-> <<Step("os.Create", TRUE), Step("filepath.Walk", FALSE),
                        Step("zipWriter.Close", TRUE), Step("file.Close", TRUE)>>]
        ELSE IF fault = "os.RemoveAll"
        THEN [fs |-> written, err |-> "unlinkat: failed", fired |-> TRUE,
              log |-> <<Step("os.Create", TRUE), Step("filepath.Walk", TRUE),
                        Step("os.RemoveAll", FALSE),
                        Step("zipWriter.Close", TRUE), Step("file.Close", TRUE)>>]
        ELSE IF fault = "os.Rename"
        THEN [fs |-> [written EXCEPT ![dirPath] = Absent], err |-> "rename: failed",
              fired |-> TRUE,
              log |-> <<Step("os.Create", TRUE), Step("filepath.Walk", TRUE),
                        Step("os.RemoveAll", TRUE), Step("os.Rename", FALSE),
                        Step("zipWriter.Close", TRUE), Step("file.Close", TRUE)>>]
        ELSE [fs |-> [fsys EXCEPT ![dirPath] = final, ![archivePath] = Absent],
              err |-> "nil", fired |-> ~closeOk,
              log |-> <<Step("os.Create", TRUE), Step("filepath.Walk", TRUE),
                        Step("os.RemoveAll", TRUE), Step("os.Rename", TRUE)>>
                      \o deferred]

\* The order of the entries in an archive: filepath.Walk visits the files in
\* lexical order and zip.Reader lists the entries in the order written.
WalkOrder == <<"a.txt", "sub/b.txt">>
Before(n) == {WalkOrder[i] : i \in {i \in 1..Len(WalkOrder) :
                 \E j \in (i + 1)..Len(WalkOrder) : WalkOrder[j] = n}}

\* Mutant of osRemoveAll: the deferred removal of tempDir does nothing.
osRemoveAllSkipped(fsys, path) == fsys

\* defer os.RemoveAll(tempDir)
osRemoveAll(fsys, path) == [fsys EXCEPT ![path] = Absent]

\* The directory DecryptDirectory has built at tempDir after writing the
\* files named.
Extracted(plain, names) ==
    Dir(Tree([n \in names |-> plain[n]], {filepathDir(n) : n \in names} \ {"."}),
        "0700")

\* DecryptDirectory(dirPath, key).  The entries are decrypted and written to
\* tempDir one after another; the deferred os.RemoveAll(tempDir) runs on
\* every return after os.MkdirAll.
DecryptDirectory(fsys, dirPath, key, fault, root) ==
    LET tempDir == TempDir(dirPath)
        entries == fsys[dirPath].content.body.entries
        names == DOMAIN entries
        opened == [n \in names |-> decryptContent(entries[n], key)]
        plain == [n \in names |-> opened[n].v]
        bad == {n \in names : ~opened[n].ok}
        firstBad == CHOOSE n \in bad : Before(n) \cap bad = {}
        partial == [fsys EXCEPT ![tempDir] =
                       Extracted(plain, Before(firstBad) \cap names)]
        cleaned == osRemoveAll(fsys, tempDir)
        cleanup == <<Step("defer os.RemoveAll", TRUE)>>
    IN  IF ~isEncryptedDirectory(fsys, dirPath, root)
        THEN [fs |-> fsys, err |-> "directory is not encrypted", fired |-> FALSE,
              log |-> <<>>]
        ELSE IF fault = "os.MkdirAll"
        THEN [fs |-> fsys, err |-> "mkdir: failed", fired |-> TRUE,
              log |-> <<Step("os.MkdirAll", FALSE)>>]
        ELSE IF bad # {}
        THEN [fs |-> osRemoveAll(partial, tempDir),
              err |-> opened[firstBad].err, fired |-> FALSE,
              log |-> <<Step("os.MkdirAll", TRUE), Step("decryptContent", FALSE)>>
                      \o cleanup]
        ELSE IF names # {} /\ fault = "os.WriteFile"
        THEN [fs |-> cleaned, err |-> "write: failed", fired |-> TRUE,
              log |-> <<Step("os.MkdirAll", TRUE), Step("os.WriteFile", FALSE)>>
                      \o cleanup]
        ELSE IF fault = "os.RemoveAll"
        THEN [fs |-> cleaned, err |-> "unlinkat: failed", fired |-> TRUE,
              log |-> <<Step("os.MkdirAll", TRUE), Step("os.WriteFile", TRUE),
                        Step("os.RemoveAll", FALSE)>> \o cleanup]
        ELSE IF fault = "os.Rename"
        THEN [fs |-> [cleaned EXCEPT ![dirPath] = Absent], err |-> "rename: failed",
              fired |-> TRUE,
              log |-> <<Step("os.MkdirAll", TRUE), Step("os.WriteFile", TRUE),
                        Step("os.RemoveAll", TRUE), Step("os.Rename", FALSE)>>
                      \o cleanup]
        ELSE [fs |-> [cleaned EXCEPT ![dirPath] = Extracted(plain, names)],
              err |-> "nil", fired |-> FALSE,
              log |-> <<Step("os.MkdirAll", TRUE), Step("os.WriteFile", TRUE),
                        Step("os.RemoveAll", TRUE), Step("os.Rename", TRUE)>>
                      \o cleanup]

\* models.NewLockedDirectory, SetPassword, SetMetadata, GetPassword
NewLockedDirectory(path, useMaster, hidden) ==
    LockedDirectory(path, "", useMaster, hidden, TRUE, "")
SetPassword(d, password) == [d EXCEPT !.Password = password, !.UseMaster = FALSE]
SetMetadata(d, key, value) == [d EXCEPT !.Metadata = key \o "=" \o value]
GetPassword(d, masterPassword) == IF d.UseMaster THEN masterPassword ELSE d.Password

\* Service.getMasterKey: make([]byte, 32), the all-zero key.
getMasterKey == Ok(MkKey(32, "zeros", "", NoSalt, ""))

\* Service.Lock.  saltId stands for the 16 bytes rand.Read returns; a fault of
\* "db.Update" is the write transaction of DB.Set failing.  The errors of
\* os.Chmod and of chflags are discarded.
Lock(fsys, d, e, path, useMaster, password, hide, saltId, nonces, dbNonce, fault) ==
    LET abs == filepathAbs(path)
        key == IF useMaster
               THEN getMasterKey
               ELSE deriveKeyFromPassword(password, MkSalt(16, saltId))
        encd == EncryptDirectory(fsys, abs, key.v, nonces, fault)
        chmodOk == fault # "os.Chmod"
        hideOk == fault # "chflags"
        chmodded == IF chmodOk THEN [encd.fs EXCEPT ![abs].mode = "0000"] ELSE encd.fs
        hidden == IF hide /\ hideOk
                  THEN [chmodded EXCEPT ![abs].hidden = TRUE]
                  ELSE chmodded
        rec0 == NewLockedDirectory(abs, useMaster, hide)
        rec1 == IF useMaster THEN rec0 ELSE SetPassword(rec0, password)
        rec == SetMetadata(rec1, "mode", "encrypted")
        set == IF fault = "db.Update"
               THEN [db |-> d, err |-> "write: failed"]
               ELSE DBSet(d, e, dbNonce, "locked_dirs", abs, rec)
        stop(err) == [fs |-> fsys, db |-> d, err |-> err, cause |-> "nil",
                      fired |-> FALSE, key |-> NoKey, log |-> <<>>]
    IN  IF fsys[abs].kind = "absent"
        THEN stop("stat: no such file or directory")
        ELSE IF fsys[abs].kind # "dir"
        THEN stop("not a directory")
        ELSE IF ~key.ok
        THEN stop(key.err)
        ELSE IF encd.err # "nil"
        THEN [fs |-> encd.fs, db |-> d, err |-> "failed to encrypt directory",
              cause |-> encd.err, fired |-> encd.fired, key |-> key.v,
              log |-> encd.log]
        ELSE [fs |-> hidden, db |-> set.db, err |-> set.err, cause |-> "nil",
              fired |-> \/ encd.fired
                        \/ fault \in {"os.Chmod", "db.Update"}
                        \/ hide /\ fault = "chflags",
              key |-> key.v,
              log |-> encd.log \o <<Step("os.Chmod", chmodOk)>>
                      \o (IF hide THEN <<Step("chflags", hideOk)>> ELSE <<>>)
                      \o <<Step("DB.Set", set.err = "nil")>>]

\* Service.Unlock.  The errors of chflags, os.Chmod and DB.Delete are
\* discarded.
Unlock(fsys, d, e, root, path, masterPassword, provided, fault) ==
    LET abs == filepathAbs(path)
        got == DBGet(d, e, "locked_dirs", abs, "LockedDirectory")
        rec == got.val
        pass == GetPassword(rec, masterPassword)
        key == IF rec.UseMaster
               THEN getMasterKey
               ELSE deriveKeyFromPassword(provided, MkSalt(16, 0))
        dec == DecryptDirectory(fsys, abs, key.v, fault, root)
        restored == [dec.fs EXCEPT ![abs].hidden = FALSE, ![abs].mode = "0700"]
        del == IF fault = "db.Update"
               THEN [db |-> d, err |-> "write: failed"]
               ELSE DBDelete(d, "locked_dirs", abs)
        stop(err, um) == [fs |-> fsys, db |-> d, err |-> err, cause |-> "nil",
                          fired |-> FALSE, key |-> NoKey, useMaster |-> um,
                          log |-> <<>>]
    IN  IF got.err # "nil"
        THEN stop("not locked", FALSE)
        ELSE IF pass # provided /\ ~rec.UseMaster
        THEN stop("invalid password", rec.UseMaster)
        ELSE IF ~key.ok
        THEN stop(key.err, rec.UseMaster)
        ELSE IF dec.err # "nil"
        THEN [fs |-> dec.fs, db |-> d, err |-> "failed to decrypt directory",
              cause |-> dec.err, fired |-> dec.fired, key |-> key.v,
              useMaster |-> rec.UseMaster, log |-> dec.log]
        ELSE [fs |-> restored, db |-> del.db, err |-> "nil", cause |-> "nil",
              fired |-> fault = "db.Update", key |-> key.v,
              useMaster |-> rec.UseMaster,
              log |-> dec.log \o <<Step("chflags", TRUE), Step("os.Chmod", TRUE),
                                   Step("DB.Delete", del.err = "nil")>>]

(***************************************************************************)
(* The directory lock in use: a command opens the store, builds a Service  *)
(* and calls Lock or Unlock once; a system call of the operation may fail. *)
(***************************************************************************)
MaxLockOps == 3

LockPaths == {"/d1", "/f1", "/none"}
LockInputs == LockPaths \cup {"d1"}
FsPaths == LockPaths \cup {ArchivePath(p) : p \in LockPaths}
                     \cup {TempDir(p) : p \in LockPaths}
RelNames == {"a.txt", "sub/b.txt"}
InitialTrees ==
    {Tree([n \in RelNames |-> Text(n)], {"sub"}),
     Tree([n \in {"a.txt"} |-> Text(n)], {"empty"}),
     EmptyTree}
DirPasswords == {"dirpw"}
Provided == {"pw1", "dirpw", ""}
LockFaults ==
    {"none", "os.Create", "os.ReadFile", "os.RemoveAll", "os.Rename",
     "zipWriter.Close", "os.Chmod", "chflags", "db.Update"}
UnlockFaults ==
    {"none", "os.MkdirAll", "os.WriteFile", "os.RemoveAll", "os.Rename", "db.Update"}

\* nonces for the files of one archive: all equal, or pairwise distinct
DistinctNonces == [n \in RelNames |-> IF n = "a.txt" THEN "n1" ELSE "n2"]
FileNonces == {[n \in RelNames |-> "n1"], DistinctNonces}

\* What a call was given and returned; fault is the failure that took place,
\* and prev is the Lock call on the same path right before an Unlock.
NoCall == [op |-> "none", path |-> "", err |-> "nil", useMaster |-> FALSE,
           password |-> "", master |-> "", fault |-> "none", isDir |-> FALSE,
           tree |-> EmptyTree, same |-> TRUE, cause |-> "nil", key |-> NoKey,
           hide |-> FALSE, log |-> <<>>]
LockRet(call, prev) ==
    [op |-> call.op, path |-> call.path, err |-> call.err,
     useMaster |-> call.useMaster, password |-> call.password,
     master |-> call.master, fault |-> call.fault, isDir |-> call.isDir,
     tree |-> call.tree, same |-> call.same, cause |-> call.cause,
     key |-> call.key, hide |-> call.hide, log |-> call.log, prev |-> prev]
CallOf(r) == [f \in DOMAIN NoCall |-> r[f]]

\* svc.Lock(dir, useMaster, passwordValue, hideDir)
ServiceLock(path, useMaster, password, hide, saltId, nonces, dbNonce, fault) ==
    /\ steps < MaxLockOps
    /\ \E r \in {Lock(fs, db, enc, path, useMaster, password, hide, saltId,
                     nonces, dbNonce, fault)} :
       LET abs == filepathAbs(path)
           isDir == fs[abs].kind = "dir"
       IN  /\ fs' = r.fs
           /\ db' = r.db
           /\ ret' = LockRet([op |-> "Lock", path |-> abs, err |-> r.err,
                              useMaster |-> useMaster, password |-> password,
                              master |-> "",
                              fault |-> IF r.fired THEN fault ELSE "none",
                              isDir |-> isDir,
                              tree |-> IF isDir THEN fs[abs].tree ELSE EmptyTree,
                              same |-> r.fs = fs /\ r.db = db,
                              cause |-> r.cause, key |-> r.key, hide |-> hide,
                              log |-> r.log],
                             NoCall)
    /\ steps' = steps + 1
    /\ UNCHANGED <<moreVars, enc, hist, isRoot, keyVars>>

\* svc.Unlock(dir, master, provided)
ServiceUnlock(path, masterPassword, provided, fault) ==
    /\ steps < MaxLockOps
    /\ \E r \in {Unlock(fs, db, enc, isRoot, path, masterPassword, provided, fault)} :
       LET abs == filepathAbs(path)
       IN  /\ fs' = r.fs
           /\ db' = r.db
           /\ ret' = LockRet([op |-> "Unlock", path |-> abs, err |-> r.err,
                              useMaster |-> r.useMaster, password |-> provided,
                              master |-> masterPassword,
                              fault |-> IF r.fired THEN fault ELSE "none",
                              isDir |-> FALSE, tree |-> EmptyTree,
                              same |-> r.fs = fs /\ r.db = db,
                              cause |-> r.cause, key |-> r.key, hide |-> FALSE,
                              log |-> r.log],
                             IF ret.op = "Lock" /\ ret.path = abs
                             THEN CallOf(ret)
                             ELSE NoCall)
    /\ steps' = steps + 1
    /\ UNCHANGED <<moreVars, enc, hist, isRoot, keyVars>>

\* The process is killed inside EncryptDirectory, right after the named call
\* returned ("os.RemoveAll begun": after it removed the first file).  The
\* deferred zipWriter.Close and file.Close do not run.
EncryptKillPoints ==
    {"os.Create", "filepath.Walk", "os.RemoveAll begun", "os.RemoveAll", "os.Rename"}
EncryptDirectoryKilled(fsys, dirPath, key, nonces, point) ==
    LET archivePath == ArchivePath(dirPath)
        files == fsys[dirPath].tree.files
        names == DOMAIN files
        entries == [n \in names |-> encryptContent(files[n], key, nonces[n]).v]
        rest == {n \in names : Before(n) \cap names # {}}
        created == [fsys EXCEPT ![archivePath] =
                       RegularFile(UnclosedZip(NoEntries), "0644")]
        written == [fsys EXCEPT ![archivePath] =
                       RegularFile(UnclosedZip(entries), "0644")]
    IN  CASE point = "os.Create" -> created
          [] point = "filepath.Walk" -> written
          [] point = "os.RemoveAll begun" ->
               [written EXCEPT ![dirPath].tree.files = [n \in rest |-> files[n]]]
          [] point = "os.RemoveAll" -> [written EXCEPT ![dirPath] = Absent]
          [] OTHER -> [written EXCEPT ![dirPath] = written[archivePath],
                                      ![archivePath] = Absent]

\* The process is killed inside DecryptDirectory, right after the named call
\* returned ("os.WriteFile": after the first file was written).  The deferred
\* os.RemoveAll(tempDir) does not run.
DecryptKillPoints ==
    {"os.MkdirAll", "os.WriteFile", "os.RemoveAll", "os.Rename"}
DecryptDirectoryKilled(fsys, dirPath, key, point) ==
    LET tempDir == TempDir(dirPath)
        entries == fsys[dirPath].content.body.entries
        names == DOMAIN entries
        plain == [n \in names |-> decryptContent(entries[n], key).v]
        first == {n \in names : Before(n) \cap names = {}}
        extracted == [fsys EXCEPT ![tempDir] = Extracted(plain, names)]
    IN  CASE point = "os.MkdirAll" ->
               [fsys EXCEPT ![tempDir] = Extracted(plain, {})]
          [] point = "os.WriteFile" ->
               [fsys EXCEPT ![tempDir] = Extracted(plain, first)]
          [] point = "os.RemoveAll" -> [extracted EXCEPT ![dirPath] = Absent]
          [] OTHER -> [extracted EXCEPT ![dirPath] = extracted[tempDir],
                                        ![tempDir] = Absent]

KilledRet(op, path, point, before) ==
    [op |-> op, path |-> path, err |-> "killed", fault |-> point, before |-> before]

\* svc.Lock(dir, true, "", false) killed while EncryptDirectory runs.
LockKilled(path, point) ==
    /\ steps < MaxLockOps
    /\ fs[path].kind = "dir"
    /\ fs' = EncryptDirectoryKilled(fs, path, getMasterKey.v, DistinctNonces, point)
    /\ ret' = KilledRet("Lock killed", path, point, fs[path])
    /\ steps' = steps + 1
    /\ UNCHANGED <<moreVars, storeVars, isRoot, keyVars>>

\* svc.Unlock(dir, master, master) killed while DecryptDirectory runs on an
\* archive locked with the master key.
UnlockKilled(path, point) ==
    /\ steps < MaxLockOps
    /\ path \in DOMAIN db["locked_dirs"]
    /\ isEncryptedDirectory(fs, path, isRoot)
    /\ \A n \in DOMAIN fs[path].content.body.entries :
          decryptContent(fs[path].content.body.entries[n], getMasterKey.v).ok
    /\ fs' = DecryptDirectoryKilled(fs, path, getMasterKey.v, point)
    /\ ret' = KilledRet("Unlock killed", path, point, fs[path])
    /\ steps' = steps + 1
    /\ UNCHANGED <<moreVars, storeVars, isRoot, keyVars>>

\* The archive at a path is damaged on disk: one entry has a bit flipped or
\* is cut short.
ArchiveDamage == {"tag", "truncate"}
CorruptArchive(p, name, kind) ==
    /\ steps < MaxLockOps
    /\ fs[p].kind = "file"
    /\ fs[p].content.kind = "zip"
    /\ name \in DOMAIN fs[p].content.body.entries
    /\ fs' = [fs EXCEPT ![p].content.body.entries[name] = Corrupt(@, kind)]
    /\ ret' = LockRet([NoCall EXCEPT !.op = "CorruptArchive", !.path = p], NoCall)
    /\ steps' = steps + 1
    /\ UNCHANGED <<moreVars, db, enc, hist, isRoot, keyVars>>

(***************************************************************************)
(* package crypto in use: an Encryptor is built from a key, encrypts and   *)
(* decrypts; a blob may be changed between the two.  ret carries the blob  *)
(* at hand, the blob as it was sealed, and the key lengths NewEncryptor    *)
(* has refused.                                                            *)
(***************************************************************************)
KeyLengths == {0, 16, 24, 31, 32, 33}
CryptoKeys ==
    {MkKey(n, "random", "", NoSalt, "a") : n \in KeyLengths}
    \cup {MkKey(KeySize, "random", "", NoSalt, "b")}
CryptoPlains ==
    {Bytes("raw", [text |-> ""]), Bytes("raw", [text |-> "hello"])}
TamperKinds == {"nonce", "other nonce", "ciphertext", "tag", "cut", "truncate"}

CryptoRet(op, key, err, plain, sealed, blob, out, refused) ==
    [op |-> op, key |-> key, err |-> err, plain |-> plain, sealed |-> sealed,
     blob |-> blob, out |-> out, refused |-> refused]
HasBlob == ret.op \in {"Encrypt", "encryptContent", "Tamper", "Decrypt", "decryptContent"}

CryptoNew(key) ==
    /\ steps < MaxCryptoOps
    /\ \E r \in {NewEncryptor(key)} :
          /\ enc' = r.v
          /\ ret' = CryptoRet("NewEncryptor", key, r.err, ret.plain, ret.sealed,
                              ret.blob, NoBytes,
                              IF r.ok THEN ret.refused ELSE ret.refused \cup {key.len})
    /\ steps' = steps + 1
    /\ UNCHANGED <<moreVars, db, hist, keyVars, lockVars>>

CryptoEncrypt(plaintext, nonce) ==
    /\ steps < MaxCryptoOps
    /\ enc # NoKey
    /\ \E b \in {Encrypt(enc, nonce, plaintext)} :
          ret' = CryptoRet("Encrypt", enc, "nil", plaintext, b, b, NoBytes, ret.refused)
    /\ steps' = steps + 1
    /\ UNCHANGED <<moreVars, storeVars, keyVars, lockVars>>

CryptoEncryptContent(content, nonce) ==
    /\ steps < MaxCryptoOps
    /\ enc # NoKey
    /\ \E r \in {encryptContent(content, enc, nonce)} :
          ret' = CryptoRet("encryptContent", enc, r.err, content, r.v, r.v, NoBytes,
                          ret.refused)
    /\ steps' = steps + 1
    /\ UNCHANGED <<moreVars, storeVars, keyVars, lockVars>>

CryptoTamper(kind) ==
    /\ steps < MaxCryptoOps
    /\ HasBlob
    /\ ret' = CryptoRet("Tamper", ret.key, "nil", ret.plain, ret.sealed,
                        Tamper(ret.blob, kind), NoBytes, ret.refused)
    /\ steps' = steps + 1
    /\ UNCHANGED <<moreVars, storeVars, keyVars, lockVars>>

CryptoDecrypt ==
    /\ steps < MaxCryptoOps
    /\ enc # NoKey
    /\ HasBlob
    /\ \E r \in {Decrypt(enc, ret.blob)} :
          ret' = CryptoRet("Decrypt", enc, r.err, ret.plain, ret.sealed, ret.blob,
                          r.v, ret.refused)
    /\ steps' = steps + 1
    /\ UNCHANGED <<moreVars, storeVars, keyVars, lockVars>>

CryptoDecryptContent ==
    /\ steps < MaxCryptoOps
    /\ enc # NoKey
    /\ HasBlob
    /\ \E r \in {decryptContent(ret.blob, enc)} :
          ret' = CryptoRet("decryptContent", enc, r.err, ret.plain, ret.sealed,
                          ret.blob, r.v, ret.refused)
    /\ steps' = steps + 1
    /\ UNCHANGED <<moreVars, storeVars, keyVars, lockVars>>

(***************************************************************************)
(* The nonces of the encryption calls.  Every call of Encrypt and of        *)
(* encryptContent reads NonceSize bytes from rand.Reader; the reads of the *)
(* process are numbered, and no two reads return the same bytes.  ret      *)
(* carries the number of reads made and every sealing made so far: its     *)
(* key, nonce, plaintext and blob.                                         *)
(***************************************************************************)
\* Mutant of ReadNonce: the nonce is left as make([]byte, n) returned it.
ReadNonceNeverRead(drawn) == "r0"

\* io.ReadFull(rand.Reader, nonce) as read number drawn + 1 of the process.
ReadNonce(drawn) == "r" \o ToString(drawn + 1)

Sealing(blob) == [k |-> blob.ct.k, n |-> blob.nonce, p |-> blob.ct.p, blob |-> blob]
NonceRet(op, err, drawn, seals) ==
    [op |-> op, err |-> err, drawn |-> drawn, seals |-> seals]
NonceValues == {GoString("s3cr3t"), GoString("other")}
NonceConfig == MkConfig(ConfigDir, InstallSalt, MasterKeyOf("pw1"), DefaultTimeout)

\* Database.Set: one Encrypt of the marshalled value.
NonceSet(b, k, v) ==
    /\ steps < MaxNonceOps
    /\ \E r \in {DBSet(db, enc, ReadNonce(ret.drawn), b, k, v)} :
          /\ db' = r.db
          /\ ret' = NonceRet("Set", r.err, ret.drawn + 1,
                             IF r.err = "nil"
                             THEN Append(ret.seals, Sealing(r.db[b][k]))
                             ELSE ret.seals)
    /\ steps' = steps + 1
    /\ UNCHANGED <<moreVars, enc, hist, keyVars, lockVars>>

\* saveCachedMasterKey: one Encrypt of the cache entry under the cache key.
NonceSaveCache ==
    /\ steps < MaxNonceOps
    /\ \E r \in {saveCachedMasterKey(NonceConfig, NonceConfig.MasterKey,
                                     DefaultTimeout, now, ReadNonce(ret.drawn), TRUE)} :
          /\ cacheFile' = r.v
          /\ ret' = NonceRet("saveCachedMasterKey", r.err, ret.drawn + 1,
                             IF r.ok THEN Append(ret.seals, Sealing(r.v.blob))
                             ELSE ret.seals)
    /\ steps' = steps + 1
    /\ UNCHANGED <<moreVars, storeVars, now, configYaml, cfg, cacheNote, pwOf, lockVars>>

\* The files of the directory in the order filepath.Walk visits them.
RECURSIVE WalkFiles(_, _)
WalkFiles(names, i) ==
    IF i > Len(WalkOrder) THEN <<>>
    ELSE (IF WalkOrder[i] \in names THEN <<WalkOrder[i]>> ELSE <<>>)
         \o WalkFiles(names, i + 1)
PlaceIn(seq, x) == CHOOSE i \in 1..Len(seq) : seq[i] = x

\* EncryptDirectory: one encryptContent for every file of the directory.
NonceEncryptDirectory(path) ==
    /\ steps < MaxNonceOps
    /\ fs[path].kind = "dir"
    /\ LET order == WalkFiles(DOMAIN fs[path].tree.files, 1)
           nonces == [n \in DOMAIN fs[path].tree.files |->
                         ReadNonce(ret.drawn + PlaceIn(order, n) - 1)]
       IN  \E r \in {EncryptDirectory(fs, path, enc, nonces, "none")} :
             /\ fs' = r.fs
             /\ ret' = NonceRet("EncryptDirectory", r.err, ret.drawn + Len(order),
                                ret.seals \o
                                [i \in 1..Len(order) |->
                                    Sealing(r.fs[path].content.body.entries[order[i]])])
    /\ steps' = steps + 1
    /\ UNCHANGED <<moreVars, storeVars, keyVars, isRoot>>

\* DecryptDirectory, after which the same files can be encrypted again.
NonceDecryptDirectory(path) ==
    /\ steps < MaxNonceOps
    /\ fs[path].kind = "file"
    /\ \E r \in {DecryptDirectory(fs, path, enc, "none", isRoot)} :
          /\ fs' = r.fs
          /\ ret' = NonceRet("DecryptDirectory", r.err, ret.drawn, ret.seals)
    /\ steps' = steps + 1
    /\ UNCHANGED <<moreVars, storeVars, keyVars, isRoot>>

(***************************************************************************)
(* Commands running at the same time.  A process runs one command: it      *)
(* opens the store of its configuration directory with NewDatabase, whose  *)
(* bbolt.Open takes the exclusive lock of the store file, trying until the *)
(* timeout has passed; lock add and lock unlock then run the directory     *)
(* transform of Service.Lock or Service.Unlock and write or delete the     *)
(* record; the deferred db.Close releases the file lock.                   *)
(***************************************************************************)
OpenTimeout == 1
Procs == {"p1", "p2"}
ConfigDirs == {"~/.ark", "/srv/ark"}
ProcPaths == {"/d1", "/d2"}
Commands == {"lock add", "lock unlock", "vault list", "backup create"}
FlockAttempts == OpenTimeout * FlockTriesPerSecond

\* The key the command hands to NewDatabase: what GetMasterKey returned, and
\* for the backup commands cfg.MasterKey, which Load leaves empty.
CommandKey(c) == IF c = "backup create" THEN NoKey ELSE MasterKeyOf("pw1")

IdleProc == [pc |-> "idle", cmd |-> "", dir |-> "", path |-> "", waited |-> 0]
ProcRet(op, p, err) == [op |-> op, proc |-> p, err |-> err]

\* Mutant of TryFlock: the lock is granted whoever holds it.
TryFlockAlwaysGranted(holder, p) == [ok |-> TRUE, holder |-> p]

\* One flock(LOCK_EX | LOCK_NB) on the store file by process p.
TryFlock(holder, p) ==
    IF holder = "none"
    THEN [ok |-> TRUE, holder |-> p]
    ELSE [ok |-> FALSE, holder |-> holder]

\* Where a process has the bbolt handle of its store.
HoldsStore(p) == procs.of[p].pc \in {"flocked", "open", "transform", "record"}
InTransform(p) == procs.of[p].pc = "transform"

\* The command starts: config.Load, GetMasterKey, then NewDatabase is called.
StartCommand(p, c, d, path) ==
    /\ steps < MaxProcOps
    /\ procs.of[p].pc = "idle"
    /\ procs' = [procs EXCEPT !.of[p] =
                    [pc |-> "opening", cmd |-> c, dir |-> d,
                     path |-> IF c \in {"lock add", "lock unlock"} THEN path ELSE "",
                     waited |-> 0]]
    /\ ret' = ProcRet("start", p, "nil")
    /\ steps' = steps + 1
    /\ UNCHANGED <<backup, storeVars, keyVars, lockVars>>

\* NewDatabase, bbolt.Open with Timeout: one attempt at the file lock.  A
\* failed attempt is repeated until the timeout has passed, and then
\* NewDatabase returns "failed to open database" and the command ends.
OpenAttempt(p) ==
    /\ procs.of[p].pc = "opening"
    /\ LET me == procs.of[p]
           r == TryFlock(procs.holder[me.dir], p)
       IN  IF r.ok
           THEN /\ procs' = [procs EXCEPT !.holder[me.dir] = r.holder,
                                          !.of[p].pc = "flocked"]
                /\ ret' = ProcRet("bbolt.Open", p, "nil")
           ELSE IF me.waited + 1 >= FlockAttempts
           THEN /\ procs' = [procs EXCEPT !.of[p] = IdleProc]
                /\ ret' = ProcRet("NewDatabase", p, "failed to open database")
           ELSE /\ procs' = [procs EXCEPT !.of[p].waited = me.waited + 1]
                /\ ret' = ProcRet("flock", p, "EWOULDBLOCK")
    /\ UNCHANGED <<backup, storeVars, steps, keyVars, lockVars>>

\* NewDatabase after bbolt.Open: NewEncryptor, and db.Close when it fails.
OpenEncryptor(p) ==
    /\ procs.of[p].pc = "flocked"
    /\ LET me == procs.of[p]
           e == NewEncryptor(CommandKey(me.cmd))
       IN  IF e.ok
           THEN /\ procs' = [procs EXCEPT !.of[p].pc = "open"]
                /\ ret' = ProcRet("NewDatabase", p, "nil")
           ELSE /\ procs' = [procs EXCEPT !.holder[me.dir] = "none",
                                          !.of[p] = IdleProc]
                /\ ret' = ProcRet("NewDatabase", p, "failed to create encryptor")
    /\ UNCHANGED <<backup, storeVars, steps, keyVars, lockVars>>

\* Service.Lock or Service.Unlock starts working on the directory.
BeginTransform(p) ==
    /\ procs.of[p].pc = "open"
    /\ procs.of[p].cmd \in {"lock add", "lock unlock"}
    /\ procs' = [procs EXCEPT !.of[p].pc = "transform"]
    /\ ret' = ProcRet("transform", p, "nil")
    /\ UNCHANGED <<backup, storeVars, steps, keyVars, lockVars>>

\* The directory is done; the record is written or deleted next.
EndTransform(p) ==
    /\ procs.of[p].pc = "transform"
    /\ procs' = [procs EXCEPT !.of[p].pc = "record"]
    /\ ret' = ProcRet("transformed", p, "nil")
    /\ UNCHANGED <<backup, storeVars, steps, keyVars, lockVars>>

\* The command returns and the deferred db.Close releases the file lock.
CloseStore(p) ==
    /\ \/ procs.of[p].pc = "record"
       \/ procs.of[p].pc = "open" /\ procs.of[p].cmd = "vault list"
    /\ procs' = [procs EXCEPT !.holder[procs.of[p].dir] = "none",
                              !.of[p] = IdleProc]
    /\ ret' = ProcRet("db.Close", p, "nil")
    /\ UNCHANGED <<backup, storeVars, steps, keyVars, lockVars>>

(***************************************************************************)
(* Specifications.  Each takes the part of the system it exercises through *)
(* its operations and leaves the rest in its initial state.                *)
(***************************************************************************)
StoreIdle ==
    /\ db = initBuckets([b \in {} |-> EmptyBucket])
    /\ hist = [c \in Cells |-> NoHist]

KeyIdle ==
    /\ now = 0
    /\ configYaml = NoYaml
    /\ cacheFile = NoFile
    /\ cfg = NoConfig
    /\ cacheNote = NoNote
    /\ pwOf = [i \in SaltIds |-> ""]

LockIdle ==
    /\ fs = [p \in FsPaths |-> Absent]
    /\ isRoot = FALSE

\* No backup taken, no commands running side by side.
NoBackup == [taken |-> FALSE]
NoProcs == [running |-> FALSE]
MoreIdle ==
    /\ backup = NoBackup
    /\ procs = NoProcs


\* The store, opened by NewDatabase with a master key.
InitStore ==
    /\ StoreIdle
    /\ enc \in {MasterKeyOf(pw) : pw \in MasterPasswords}
    /\ ret = [op |-> "NewDatabase", bucket |-> "", key |-> "", err |-> "nil",
              val |-> GoString(""), dest |-> "string", exists |-> FALSE]
    /\ steps = 0
    /\ KeyIdle
    /\ LockIdle
    /\ MoreIdle

NextStore ==
    \/ \E pw \in MasterPasswords : NewDatabase(MasterKeyOf(pw))
    \/ NewDatabase(NoKey)
    \/ \E b \in StoreBuckets, k \in StoreKeys, v \in StoreValues, n \in Nonces :
          StoreSet(b, k, v, n)
    \/ \E b \in StoreBuckets, k \in StoreKeys, t \in DestTypes : StoreGet(b, k, t)
    \/ \E b \in StoreBuckets, k \in StoreKeys : StoreDelete(b, k)
    \/ \E b \in StoreBuckets, k \in StoreKeys : StoreExists(b, k)
    \/ \E b \in StoreBuckets, k \in StoreKeys, c \in Corruptions : StoreCorrupt(b, k, c)

SpecStore == InitStore /\ [][NextStore]_vars

\* The master key lifecycle, from a configuration directory with no files.
InitKey ==
    /\ KeyIdle
    /\ ret = PlainRet("start")
    /\ steps = 0
    /\ StoreIdle
    /\ enc = NoKey
    /\ LockIdle
    /\ MoreIdle

NextKey ==
    \/ \E pw \in Typed \ {""}, salt \in FreshSalts, bk \in FreshBackupKeys :
          RunInit(pw, salt, bk)
    \/ ConfigLoad
    \/ NewDefaultConfig
    \/ ConfigSave
    \/ \E typed \in Typed, n \in Nonces, writeOk \in BOOLEAN :
          ConfigGetMasterKey(typed, n, writeOk)
    \/ \E typed \in Typed, n \in Nonces, writeOk \in BOOLEAN :
          RunCommand(typed, n, writeOk)
    \/ ClearPasswordCache
    \/ \E ts \in TimeoutInputs : SetPasswordCacheTimeout(ts)
    \/ \E pw \in Typed \ {""}, salt \in FreshSalts, bk \in FreshBackupKeys :
          SetMasterPassword(pw, salt, bk)
    \/ TruncateYamlSalt
    \/ \E kind \in CacheCorruptions : CorruptCache(kind)
    \/ Tick

SpecKey == InitKey /\ [][NextKey]_vars

\* The configuration under the program's own calls: the commands, and the
\* methods of the Config a command loaded or init made.
NextSalt ==
    \/ \E pw \in Typed \ {""}, salt \in FreshSalts, bk \in FreshBackupKeys :
          RunInit(pw, salt, bk)
    \/ ConfigLoad
    \/ ConfigSave
    \/ \E typed \in Typed, n \in Nonces, writeOk \in BOOLEAN :
          ConfigGetMasterKey(typed, n, writeOk)
    \/ \E typed \in Typed, n \in Nonces, writeOk \in BOOLEAN :
          RunCommand(typed, n, writeOk)
    \/ ClearPasswordCache
    \/ \E ts \in TimeoutInputs : SetPasswordCacheTimeout(ts)
    \/ \E pw \in Typed \ {""}, salt \in FreshSalts, bk \in FreshBackupKeys :
          SetMasterPassword(pw, salt, bk)
    \/ Tick

SpecSalt == InitKey /\ [][NextSalt]_vars

\* The cache file of an installation, read there and by Configs of another
\* directory or salt.
NextCache ==
    \/ \E pw \in Typed \ {""}, salt \in FreshSalts, bk \in FreshBackupKeys :
          RunInit(pw, salt, bk)
    \/ \E typed \in Typed, n \in Nonces, writeOk \in BOOLEAN :
          RunCommand(typed, n, writeOk)
    \/ \E dir \in ElsewhereDirs, salt \in ElsewhereSalts, typed \in Typed :
          CommandElsewhere(dir, salt, typed)
    \/ TruncateYamlSalt
    \/ Tick

SpecCache == InitKey /\ [][NextCache]_vars

\* The store with backups taken and restored between writes.
NextBackup ==
    \/ \E b \in BackupBucketsInUse, k \in StoreKeys, v \in BackupValues :
          HandleOpen /\ StoreSet(b, k, v, "n1")
    \/ \E b \in BackupBucketsInUse, k \in StoreKeys :
          HandleOpen /\ StoreDelete(b, k)
    \/ StoreBackup
    \/ \E fault \in RestoreFaults : StoreRestore(fault)

SpecBackup == InitStore /\ [][NextBackup]_vars

\* Writes and deletes on the store, each seen against the store before it.
InitFrame ==
    /\ StoreIdle
    /\ enc = MasterKeyOf("pw1")
    /\ ret = FrameRet("NewDatabase", "", "", GoString(""), "nil",
                      initBuckets([b \in {} |-> EmptyBucket]))
    /\ steps = 0
    /\ KeyIdle
    /\ LockIdle
    /\ MoreIdle

NextFrame ==
    \/ \E b \in FrameBuckets, k \in StoreKeys, v \in BackupValues : FrameSet(b, k, v)
    \/ \E b \in FrameBuckets, k \in StoreKeys : FrameDelete(b, k)

SpecFrame == InitFrame /\ [][NextFrame]_vars

\* Searches between writes and deletes of names in the vault bucket.
InitSearch ==
    /\ StoreIdle
    /\ enc = MasterKeyOf("pw1")
    /\ ret = SearchRet("NewDatabase", "", "", "", "nil", <<>>)
    /\ steps = 0
    /\ KeyIdle
    /\ LockIdle
    /\ MoreIdle

NextSearch ==
    \/ \E k \in SearchNames, v \in BackupValues : SearchSet(k, v)
    \/ \E k \in SearchNames : SearchDelete(k)
    \/ \E b \in {"vault", "nosuch"}, pattern \in SearchPatterns : Search(b, pattern)

SpecSearch == InitSearch /\ [][NextSearch]_vars

\* The commands of the program run one after another on one installation.
NextCli ==
    \/ \E pw \in Typed \ {""}, salt \in FreshSalts, bk \in FreshBackupKeys :
          RunInit(pw, salt, bk)
    \/ \E typed \in Typed, n \in Nonces, writeOk \in BOOLEAN : runList(typed, n, writeOk)
    \/ \E b \in BackupBuckets : createCmd(b)
    \/ ClearPasswordCache
    \/ TruncateYamlSalt
    \/ Tick

SpecCli == InitKey /\ [][NextCli]_vars

\* The vault of a store opened with the master key.
InitVault ==
    /\ StoreIdle
    /\ enc = MasterKeyOf("pw1")
    /\ KeyIdle
    /\ LockIdle
    /\ MoreIdle
    /\ ret = VaultRet("none", "", NoArgs, "none", [NoResult EXCEPT !.db = db], db)
    /\ steps = 0

NextVault ==
    \/ \E key \in VaultKeys, a \in VaultArgs, fault \in VaultFaults :
          VaultSet(key, a, fault)
    \/ \E key \in VaultKeys, fault \in VaultFaults : VaultGet(key, fault)
    \/ \E fault \in VaultFaults : VaultList(fault)
    \/ \E key \in VaultKeys, fault \in VaultFaults : VaultDelete(key, fault)
    \/ \E key \in VaultKeys, a \in VaultArgs, fault \in VaultFaults :
          VaultUpdate(key, a, fault)
    \/ \E key \in VaultKeys, kind \in VaultDamage : VaultCorrupt(key, kind)

SpecVault == InitVault /\ [][NextVault]_vars

\* The vault under the calls that touch an entry, tags and metadata included.
NextTags ==
    \/ \E key \in VaultKeys, a \in TagArgs, fault \in VaultFaults : VaultSet(key, a, fault)
    \/ \E key \in VaultKeys, fault \in VaultFaults : VaultGet(key, fault)
    \/ \E key \in VaultKeys, a \in TagArgs, fault \in VaultFaults : VaultUpdate(key, a, fault)
    \/ \E key \in VaultKeys, tag \in TagNames, fault \in VaultFaults :
          VaultAddTag(key, tag, fault)
    \/ \E key \in VaultKeys, tag \in TagNames, fault \in VaultFaults :
          VaultRemoveTag(key, tag, fault)
    \/ \E key \in VaultKeys, mk \in MetaKeys, v \in MetaValues, fault \in VaultFaults :
          VaultSetMetadata(key, mk, v, fault)

SpecTags == InitVault /\ [][NextTags]_vars

\* The directory lock, on a directory /d1 and a regular file /f1, with the
\* store opened under the master key.
InitLock ==
    /\ StoreIdle
    /\ enc = MasterKeyOf("pw1")
    /\ KeyIdle
    /\ \E t \in InitialTrees :
          fs = [p \in FsPaths |->
                   CASE p = "/d1" -> Dir(t, "0755")
                     [] p = "/f1" -> RegularFile(Text("f1"), "0644")
                     [] OTHER -> Absent]
    /\ isRoot \in BOOLEAN
    /\ MoreIdle
    /\ ret = LockRet(NoCall, NoCall)
    /\ steps = 0

NextLock ==
    \/ \E path \in LockInputs, hide \in BOOLEAN, nonces \in FileNonces,
          fault \in LockFaults :
          ServiceLock(path, TRUE, "", hide, 1, nonces, "n1", fault)
    \/ \E path \in LockInputs, pw \in DirPasswords, hide \in BOOLEAN :
          ServiceLock(path, FALSE, pw, hide, 2, DistinctNonces, "n2", "none")
    \/ \E path \in LockInputs, provided \in Provided, fault \in UnlockFaults :
          ServiceUnlock(path, "pw1", provided, fault)
    \/ \E p \in LockPaths, name \in RelNames, kind \in ArchiveDamage :
          CorruptArchive(p, name, kind)

SpecLock == InitLock /\ [][NextLock]_vars

\* The directory lock on /d1 with the master key, while the archive may be
\* damaged between Lock and Unlock.
ArchiveLockFaults == {"none", "os.Chmod"}
NextArchive ==
    \/ \E hide \in BOOLEAN, fault \in ArchiveLockFaults :
          ServiceLock("/d1", TRUE, "", hide, 1, DistinctNonces, "n1", fault)
    \/ \E fault \in UnlockFaults : ServiceUnlock("/d1", "pw1", "", fault)
    \/ \E name \in RelNames, kind \in ArchiveDamage :
          CorruptArchive("/d1", name, kind)

SpecArchive == InitLock /\ [][NextArchive]_vars

\* The directory lock on /d1 with the master key, where the process may be
\* killed in the middle of Lock or Unlock.
NextCrash ==
    \/ ServiceLock("/d1", TRUE, "", FALSE, 1, DistinctNonces, "n1", "none")
    \/ ServiceUnlock("/d1", "pw1", "", "none")
    \/ \E point \in EncryptKillPoints : LockKilled("/d1", point)
    \/ \E point \in DecryptKillPoints : UnlockKilled("/d1", point)

SpecCrash == InitLock /\ [][NextCrash]_vars

\* Two processes, each running one command after another.
InitProc ==
    /\ procs = [running |-> TRUE,
                holder |-> [d \in ConfigDirs |-> "none"],
                of |-> [p \in Procs |-> IdleProc]]
    /\ backup = NoBackup
    /\ ret = ProcRet("none", "", "nil")
    /\ steps = 0
    /\ StoreIdle
    /\ enc = NoKey
    /\ KeyIdle
    /\ LockIdle

NextProc ==
    \/ \E p \in Procs, c \in Commands, d \in ConfigDirs, path \in ProcPaths :
          StartCommand(p, c, d, path)
    \/ \E p \in Procs : OpenAttempt(p)
    \/ \E p \in Procs : OpenEncryptor(p)
    \/ \E p \in Procs : BeginTransform(p)
    \/ \E p \in Procs : EndTransform(p)
    \/ \E p \in Procs : CloseStore(p)

SpecProc == InitProc /\ [][NextProc]_vars

\* One process that writes records, cache entries and archives under the
\* master key.
InitNonce ==
    /\ StoreIdle
    /\ enc = MasterKeyOf("pw1")
    /\ KeyIdle
    /\ \E t \in InitialTrees :
          fs = [p \in FsPaths |->
                   IF p = "/d1" THEN Dir(t, "0755") ELSE Absent]
    /\ isRoot = FALSE
    /\ MoreIdle
    /\ ret = NonceRet("none", "nil", 0, <<>>)
    /\ steps = 0

NextNonce ==
    \/ \E b \in BackupBucketsInUse, k \in StoreKeys, v \in NonceValues : NonceSet(b, k, v)
    \/ NonceSaveCache
    \/ NonceEncryptDirectory("/d1")
    \/ NonceDecryptDirectory("/d1")

SpecNonce == InitNonce /\ [][NextNonce]_vars

\* The encryption primitive on its own, with keys of every length.
InitCrypto ==
    /\ enc = NoKey
    /\ ret = CryptoRet("none", NoKey, "nil", NoBytes, NoBlob, NoBlob, NoBytes, {})
    /\ steps = 0
    /\ StoreIdle
    /\ KeyIdle
    /\ LockIdle
    /\ MoreIdle

NextCrypto ==
    \/ \E key \in CryptoKeys : CryptoNew(key)
    \/ \E p \in CryptoPlains, n \in Nonces : CryptoEncrypt(p, n)
    \/ \E p \in CryptoPlains, n \in Nonces : CryptoEncryptContent(p, n)
    \/ \E kind \in TamperKinds : CryptoTamper(kind)
    \/ CryptoDecrypt
    \/ CryptoDecryptContent

SpecCrypto == InitCrypto /\ [][NextCrypto]_vars

(***************************************************************************)
(* Claims about the store (checked under SpecStore)                        *)
(***************************************************************************)
RetCell == <<ret.bucket, ret.key>>

\* The last operation was a Get of a record whose last write was a successful
\* Set under the key of the open handle, not altered since, read into a
\* destination of the written value's type.
GetAfterSet ==
    /\ ret.op = "Get"
    /\ RetCell \in Cells
    /\ hist[RetCell].op = "set"
    /\ hist[RetCell].mk = enc
    /\ hist[RetCell].intact
    /\ ret.dest = hist[RetCell].v.type

\* The value with the fields its struct tags keep out of the JSON zeroed.
WithoutUnserialized(v) ==
    IF v.type = "LockedDirectory" THEN [v EXCEPT !.Password = ""] ELSE v

C7_ExistsReflectsSetDelete ==
    /\ (ret.op = "Exists" /\ RetCell \in Cells) =>
           (ret.err = "nil" /\ (ret.exists <=> hist[RetCell].op = "set"))
    /\ (ret.op = "Get" /\ RetCell \in Cells) =>
           (ret.err = "key not found" <=> ~DBExists(db, ret.bucket, ret.key).exists)
    /\ (ret.op = "Get" /\ RetCell \in Cells /\ hist[RetCell].op = "delete") =>
           ret.err = "key not found"

\* C7 witness: a key that was set and then deleted is read and is not found.
C7_Witness ==
    /\ ret.op = "Get"
    /\ RetCell \in Cells
    /\ hist[RetCell].op = "delete"
    /\ hist[RetCell].v # NoHist.v
    /\ ret.err = "key not found"

\* C8: Get of a record written under another master key, or whose blob was
\* altered, fails with the decrypt error and leaves dest as it was.
C8_GetRejectsForeignOrAlteredRecord ==
    (/\ ret.op = "Get"
     /\ RetCell \in Cells
     /\ hist[RetCell].op = "set"
     /\ (hist[RetCell].mk # enc \/ ~hist[RetCell].intact))
    => (ret.err = "failed to decrypt data" /\ ret.val = Zero(ret.dest))

\* C8 witness: a record written under one master key is read under another.
C8_Witness ==
    /\ ret.op = "Get"
    /\ RetCell \in Cells
    /\ hist[RetCell].op = "set"
    /\ hist[RetCell].mk # enc
    /\ hist[RetCell].intact
    /\ ret.err = "failed to decrypt data"

\* C20: Delete(b,k) of a key absent from an existing bucket returns no error
\* and leaves the store unchanged, so a second Delete changes nothing; Delete
\* on a bucket that does not exist returns an error.
C20_DeleteOfAbsentKeyChangesNothing ==
    [][(ret'.op = "Delete" /\ steps' = steps + 1) =>
          /\ ret'.bucket \notin DOMAIN db =>
                 (ret'.err = "bucket not found" /\ db' = db)
          /\ ret'.bucket \in DOMAIN db =>
                 /\ ret'.err = "nil"
                 /\ ret'.key \notin DOMAIN db'[ret'.bucket]
                 /\ ret'.key \notin DOMAIN db[ret'.bucket] => db' = db]_vars

\* C20 witness: a Delete of a key that was never set returned no error.
C20_Witness ==
    /\ ret.op = "Delete"
    /\ RetCell \in Cells
    /\ ret.err = "nil"
    /\ hist[RetCell].op = "delete"
    /\ hist[RetCell].v = NoHist.v

\* C34: a bucket holds at most one record per key; a successful Set(b,k,v)
\* leaves under k the one record of v, replacing what was there, a successful
\* Delete(b,k) leaves no record under k, and both leave the records under
\* every other key of b and in every other bucket as they were; a Set or
\* Delete that fails changes nothing.
C34_SetAndDeleteTouchOneKey ==
    ret.op \in {"Set", "Delete"}
    => /\ DOMAIN db = DOMAIN ret.before
       /\ \A b \in DOMAIN db :
             /\ DOMAIN db[b] \ {ret.key} = DOMAIN ret.before[b] \ {ret.key}
             /\ \A k \in DOMAIN db[b] :
                   (b # ret.bucket \/ k # ret.key) => db[b][k] = ret.before[b][k]
       /\ ret.err # "nil" => db = ret.before
       /\ (ret.op = "Set" /\ ret.err = "nil")
          => /\ DBList(db, ret.bucket).keys
                  = DBList([ret.before EXCEPT
                              ![ret.bucket] = Put(@, ret.key, NoBlob)], ret.bucket).keys
             /\ DBGet(db, enc, ret.bucket, ret.key, "string").val = ret.val
       /\ (ret.op = "Delete" /\ ret.err = "nil")
          => ret.key \notin DOMAIN db[ret.bucket]

\* A Set replaced the value under a key while another key of the bucket
\* and a key of another bucket held records.
C34_Witness ==
    /\ ret.op = "Set"
    /\ ret.err = "nil"
    /\ ret.key \in DOMAIN ret.before[ret.bucket]
    /\ ret.before[ret.bucket][ret.key] # db[ret.bucket][ret.key]
    /\ DOMAIN db[ret.bucket] # {ret.key}
    /\ \E b \in DOMAIN db \ {ret.bucket} : DOMAIN db[b] # {}

\* Checked under SpecSearch.
\* C36: Search(b, s) returns exactly the keys of b in which s occurs as a run
\* of adjacent bytes, compared byte for byte (all of them when s is empty), in
\* the order of List; the answer is fixed by the key names alone, whatever the
\* values stored under them.
Occurs(s, key) ==
    \E i \in 1..(Len(key) + 1) :
        /\ i + Len(s) - 1 <= Len(key)
        /\ \A j \in 1..Len(s) : key[i + j - 1] = s[j]

StoredEntry(d, key) == DBGet(d, enc, "vault", key, "VaultEntry")

\* C37: a Get that succeeds leaves under its key the entry it found with
\* updatedAt set to the time of the read and nothing else changed, and leaves
\* every other record of the vault as it was; over Get, Update, AddTag,
\* RemoveTag and SetMetadata the updatedAt of an entry never goes back.
C37_GetTouchesOnlyUpdatedAt ==
    [][/\ (ret'.op = "Get" /\ ret'.err = "nil")
          => /\ StoredEntry(db', ret'.key).err = "nil"
             /\ StoredEntry(db', ret'.key).val
                   = [StoredEntry(db, ret'.key).val EXCEPT !.UpdatedAt = now']
             /\ DOMAIN db'["vault"] = DOMAIN db["vault"]
             /\ \A k \in DOMAIN db["vault"] \ {ret'.key} :
                   db'["vault"][k] = db["vault"][k]
       /\ ret'.op \in {"Get", "Update", "AddTag", "RemoveTag", "SetMetadata"}
          => \A k \in DOMAIN db["vault"] \cap DOMAIN db'["vault"] :
                (StoredEntry(db, k).err = "nil" /\ StoredEntry(db', k).err = "nil")
                => StoredEntry(db', k).val.UpdatedAt >= StoredEntry(db, k).val.UpdatedAt]_vars

\* The tags of an entry, as a set, and whether a tag list names a tag twice.
TagSet(tags) == {tags[i] : i \in 1..Len(tags)}
Repeats(tags) == \E i, j \in 1..Len(tags) : i # j /\ tags[i] = tags[j]

\* C38: no entry in the vault has a tag twice; AddTag of a tag the entry has
\* leaves its tags as they were; after RemoveTag(t) the entry has no tag t.
C38_TagsAreASet ==
    [][/\ \A k \in DOMAIN db'["vault"] :
             StoredEntry(db', k).err = "nil" => ~Repeats(StoredEntry(db', k).val.Tags)
       /\ (ret'.op = "AddTag" /\ ret'.err = "nil"
            /\ ret'.args.tags[1] \in TagSet(StoredEntry(db, ret'.key).val.Tags))
          => StoredEntry(db', ret'.key).val.Tags = StoredEntry(db, ret'.key).val.Tags
       /\ (ret'.op = "RemoveTag" /\ ret'.err = "nil")
          => /\ StoredEntry(db', ret'.key).err = "nil"
             /\ ret'.args.tags[1] \notin TagSet(StoredEntry(db', ret'.key).val.Tags)]_vars

C38_Witness ==
    /\ ret.op = "AddTag"
    /\ ret.err = "nil"
    /\ ret.prior.err = "nil"
    /\ ret.args.tags[1] \in TagSet(ret.prior.val.Tags)
    /\ StoredEntry(db, ret.key).val.Tags = ret.prior.val.Tags
    /\ Len(ret.prior.val.Tags) = 2

\* Checked under SpecSalt.
\* The Config in memory has the Salt config.yaml has.
SaltAgrees ==
    ~configYaml.exists \/ cfg = NoConfig \/ cfg.Salt = configYaml.doc.salt

\* C39: the Salt in config.yaml changes only in a Save of a Config whose Salt
\* SetMasterPassword replaced: only SetMasterPassword makes the Salt in memory
\* differ from the Salt on disk, and only a Save of such a Config changes the
\* Salt on disk; Load after Save gives the Salt saved; init on an initialized
\* directory leaves config.yaml as it is; GetMasterKey leaves both the Salt of
\* its Config and config.yaml as they are, and a key it derives is the key
\* of the typed password and that Salt.
C39_SaltChangesOnlyWithThePassword ==
    [][/\ (SaltAgrees /\ ~SaltAgrees') => ret'.op = "SetMasterPassword"
       /\ (configYaml.exists /\ configYaml'.doc.salt # configYaml.doc.salt)
          => (ret'.op = "Save" /\ ~SaltAgrees)
       /\ ret'.op = "Save" => Load(ConfigDir, configYaml').Salt = cfg.Salt
       /\ (ret'.op = "Init" /\ configYaml.exists) => configYaml' = configYaml
       /\ ret'.op = "GetMasterKey"
          => /\ configYaml' = configYaml
             /\ cfg'.Salt = ret'.salt
             /\ (ret'.prompted /\ ret'.err = "nil")
                => ret'.key = DeriveKey(ret'.typed, ret'.salt).v]_vars

C39_Witness ==
    /\ ret.op = "Save"
    /\ configYaml.exists
    /\ configYaml.doc.salt = MkSalt(SaltSize, 2)
    /\ pwOf[1] # ""
    /\ pwOf[2] # ""

\* Checked under SpecCache.
\* C40: a GetMasterKey whose Config has another Salt or another directory
\* than the Config that wrote the cache file gets no key from the file: the
\* file is removed and the password is asked for.
C40_CacheOfAnotherSaltOrDirIsRejected ==
    LET dir == IF "dir" \in DOMAIN ret THEN ret.dir ELSE ConfigDir
    IN  (/\ ret.op \in {"GetMasterKey", "GetMasterKey elsewhere"}
         /\ ret.fresh
         /\ ret.pre.state = "written"
         /\ (ret.salt # ret.pre.salt \/ dir # ConfigDir))
        => (ret.removed /\ ret.prompted)

\* C24: after a successful Restore of the bytes a Backup returned, List,
\* Exists and Get on every bucket give what they gave when the Backup was
\* taken, whatever was set and deleted in between.
C24_RestoreBringsBackTheBackedUpStore ==
    (ret.op = "Restore" /\ ret.err = "nil") => Observe(db, enc) = backup.seen

\* A Restore succeeded on a store that no longer showed what the backup
\* holds, and the backup was not of an empty store.
C24_Witness ==
    /\ ret.op = "Restore"
    /\ ret.err = "nil"
    /\ ret.changed
    /\ \E b \in BucketNames : backup.seen[b].list.keys # <<>>

(***************************************************************************)
(* Claims about the master key lifecycle (checked under SpecKey)           *)
(***************************************************************************)
\* GetMasterKey was just called on a Config with no key in memory.
FreshCall == ret.op = "GetMasterKey" /\ ret.fresh

\* C4: with the cache written at time T with timeout t and left alone, a call
\* from a Config with no key in memory and the same Salt returns the cached
\* key without prompting at any time up to T+t, and after T+t deletes the
\* cache file and prompts.
C4_CacheServesKeyUntilExpiry ==
    (FreshCall /\ ret.pre.state = "written" /\ ret.pre.salt = ret.salt) =>
        IF ret.at <= ret.pre.T + ret.pre.t
        THEN ret.err = "nil" /\ ret.key = ret.pre.key /\ ~ret.prompted /\ ~ret.removed
        ELSE ret.removed /\ ret.prompted

\* C4 witness: a call exactly at T+t, later than T, is served from the cache.
C4_Witness ==
    /\ FreshCall
    /\ ret.pre.state = "written"
    /\ ret.pre.salt = ret.salt
    /\ ret.at = ret.pre.T + ret.pre.t
    /\ ret.pre.t > 0
    /\ ret.key = ret.pre.key
    /\ ~ret.prompted

\* C5: with a cache file that fails to decrypt or decrypts to malformed
\* JSON, the next GetMasterKey of an initialized Config (one whose Salt has
\* SaltSize bytes, so that the prompt path can succeed) deletes the file,
\* prompts, and returns the key derived from the password typed.
C5_CorruptCacheSelfHeals ==
    (FreshCall /\ ret.pre.state = "corrupt" /\ ret.salt.len = SaltSize) =>
        /\ ret.removed
        /\ ret.prompted
        /\ ret.typed # "" =>
              /\ ret.err = "nil"
              /\ ret.key = MkKey(KeySize, "argon2id", ret.typed, ret.salt, "")
              /\ cfg.MasterKey = ret.key

\* C5 witness: a call found a corrupted cache file and returned a key.
C5_Witness ==
    /\ FreshCall
    /\ ret.pre.state = "corrupt"
    /\ ret.removed
    /\ ret.err = "nil"
    /\ ret.key.len = KeySize

\* C9: config.yaml never holds the master key, and the cache file holds
\* nothing but a blob sealed under the cache encryption key.
C9_MasterKeyNeverPlainOnDisk ==
    /\ "master_key" \notin DOMAIN configYaml.doc
    /\ cacheFile.exists =>
          /\ cacheFile.blob.ct.k.src = "sha256"
          /\ cacheFile.blob.ct.k.dir = ConfigDir
          /\ cacheFile.blob.ct.k.salt.len = SaltSize

\* C9 witness: Save ran with the master key in memory and the key cached.
C9_Witness ==
    /\ ret.op = "Save"
    /\ configYaml.exists
    /\ cfg.MasterKey.len = KeySize
    /\ cacheFile.exists

\* C10 as stated: a password typed at the prompt that is not the master
\* password the Salt was set up with makes GetMasterKey fail, and no key is
\* returned, cached or kept in memory.
C10_WrongPasswordIsRejected ==
    (/\ ret.op = "GetMasterKey"
     /\ ret.prompted
     /\ ret.typed # ""
     /\ ret.salt.len > 0
     /\ ret.typed # pwOf[ret.salt.id])
    => (ret.err # "nil" /\ ret.key = NoKey /\ ~ret.wrote /\ cfg.MasterKey = NoKey)

\* C16: with a configured password cache timeout of 0 caching is disabled:
\* GetMasterKey writes no cache entry.
C16_ZeroTimeoutWritesNoCache ==
    (ret.op = "GetMasterKey" /\ cfg.PasswordCacheTimeout = 0) => ~ret.wrote

C18_FailedGetMasterKeyLeavesNoKey ==
    /\ (FreshCall /\ ret.salt.len = 0) =>
           (ret.err = "no salt found in config" /\ ~ret.prompted)
    /\ (ret.op = "GetMasterKey" /\ ret.err # "nil") =>
           /\ ret.err \in {"no salt found in config", "failed to get master password",
                            "failed to derive master key"}
           /\ ret.key = NoKey
           /\ cfg.MasterKey = NoKey
           /\ ~ret.wrote

\* C18 witness: GetMasterKey on a Config without a Salt.
C18_Witness ==
    /\ FreshCall
    /\ ret.salt.len = 0
    /\ ret.err = "no salt found in config"
    /\ cfg.MasterKey = NoKey
    /\ ~cacheFile.exists

\* A call that got a password and could derive the key, and wrote no cache file.
CacheWriteFailed ==
    /\ ret.op = "GetMasterKey"
    /\ ret.prompted
    /\ ret.typed # ""
    /\ ret.salt.len = SaltSize
    /\ ~ret.wrote

\* C19: when writing the disk cache fails, GetMasterKey keeps the derived key
\* in memory and returns it without error.
C19_CacheWriteFailureIsSwallowed ==
    CacheWriteFailed =>
        /\ ret.err = "nil"
        /\ ret.key = MkKey(KeySize, "argon2id", ret.typed, ret.salt, "")
        /\ cfg.MasterKey = ret.key

\* C19 witness: a key was returned although no cache file was written.
C19_Witness ==
    /\ CacheWriteFailed
    /\ ret.err = "nil"
    /\ cfg.MasterKey.len = KeySize

\* C35: GetMasterKey looks in memory, then at the disk cache, then prompts.
\* Called on a Config that holds a key it returns that key and neither
\* prompts nor touches the cache file, whatever the file holds; on a Config
\* without key and with a valid cache entry it returns the cached key, keeps
\* it in the Config and does not prompt; it prompts only when there was no
\* key in memory and the cache gave none.
C35_MemoryThenCacheThenPrompt ==
    [][ret'.op = "GetMasterKey"
       => LET hit == loadCachedMasterKey(MkConfig(ConfigDir, ret'.salt, NoKey, 0),
                                         cacheFile, now)
              valid == hit.ok /\ hit.key.len > 0
          IN  /\ ~ret'.fresh
                 => /\ ret'.err = "nil"
                    /\ ret'.key = cfg.MasterKey
                    /\ cfg' = cfg
                    /\ cacheFile' = cacheFile
                    /\ ~ret'.prompted
              /\ (ret'.fresh /\ valid)
                 => /\ ret'.err = "nil"
                    /\ ret'.key = hit.key
                    /\ cfg'.MasterKey = hit.key
                    /\ cacheFile' = cacheFile
                    /\ ~ret'.prompted
              /\ ret'.prompted => (ret'.fresh /\ ~valid)]_vars

\* A Config holding a key was asked again after the cache entry had expired:
\* it answered from memory and the expired file is still there.
C35_Witness ==
    /\ ret.op = "GetMasterKey"
    /\ ~ret.fresh
    /\ ret.err = "nil"
    /\ ~ret.prompted
    /\ ret.pre.state = "written"
    /\ ret.at > ret.pre.T + ret.pre.t
    /\ cacheFile.exists

(***************************************************************************)
(* Claims about the directory lock (checked under SpecLock)                *)
(***************************************************************************)
\* An Unlock that directly follows a Lock of the same directory, with no
\* system call failing in either, and given the password of that Lock (the
\* master password when the Lock used the master key).
UnlockAfterLock ==
    /\ ret.op = "Unlock"
    /\ ret.prev.op = "Lock"
    /\ ret.prev.isDir
    /\ ret.prev.fault = "none"
    /\ ret.fault = "none"

IsArchive(node) == node.kind = "file" /\ node.content.kind = "zip"
HasRecord(p) == p \in DOMAIN db["locked_dirs"]

\* C2: for every directory and password, Lock followed by Unlock on the same
\* path succeeds and leaves at the path a directory with the relative
\* structure, files and file contents of the original, the archive gone and
\* the locked-directory record removed.
C2_UnlockAfterLockRestoresDirectory ==
    (/\ UnlockAfterLock
     /\ ret.password = IF ret.prev.useMaster THEN ret.master ELSE ret.prev.password)
    => /\ ret.prev.err = "nil"
       /\ ret.err = "nil"
       /\ fs[ret.path].kind = "dir"
       /\ fs[ret.path].tree = ret.prev.tree
       /\ ~HasRecord(ret.path)

\* C3: in every reachable state, the states after a failed step of Lock or
\* Unlock included, bucket locked_dirs holds a record for path p iff p on disk
\* is an encrypted archive.
C3_RecordIffArchive ==
    \A p \in LockPaths : HasRecord(p) <=> IsArchive(fs[p])

\* C6: for a directory locked with useMaster = false, Unlock with a password
\* other than the one given to Lock fails with "invalid password" and leaves
\* the archive and the record unchanged.
C6_WrongPasswordUnlockRejected ==
    (/\ UnlockAfterLock
     /\ ~ret.prev.useMaster
     /\ ret.password # ret.prev.password)
    => /\ ret.err = "invalid password"
       /\ ret.same

\* The errors decryptContent returns for an entry that does not authenticate
\* or is too short to hold a nonce.
DecryptFailures == {"cipher: message authentication failed", "ciphertext too short"}

Ran(step) == \E i \in 1..Len(ret.log) : ret.log[i].step = step
Succeeded(step) == \E i \in 1..Len(ret.log) : ret.log[i].step = step /\ ret.log[i].ok
RanLast(step) == Len(ret.log) > 0 /\ ret.log[Len(ret.log)].step = step
RanBefore(a, b) ==
    \E i, j \in 1..Len(ret.log) :
        i < j /\ ret.log[i].step = a /\ ret.log[j].step = b

\* C12: a Lock that writes the record does so as its last step, after the
\* encrypt transform, the permission change and, when hiding was requested,
\* the hide step have succeeded; an Unlock that deletes the record does so as
\* its last step, after the extracted directory has replaced the archive.
C12_RecordIsLastStepAfterSuccess ==
    /\ (ret.op = "Lock" /\ Ran("DB.Set"))
       => /\ RanLast("DB.Set")
          /\ Succeeded("os.Rename")
          /\ Succeeded("os.Chmod")
          /\ ret.hide => Succeeded("chflags")
    /\ (ret.op = "Unlock" /\ Ran("DB.Delete"))
       => /\ RanLast("DB.Delete")
          /\ Succeeded("os.Rename")

\* C13: a Lock that removes the original directory tree has, before the
\* removal, written every entry of the archive and closed the zip writer and
\* the file; so whenever the tree has been removed a complete archive is on
\* disk.
C13_ArchiveClosedBeforeTreeRemoved ==
    /\ (ret.op = "Lock" /\ Ran("os.RemoveAll"))
       => /\ RanBefore("filepath.Walk", "os.RemoveAll")
          /\ RanBefore("zipWriter.Close", "os.RemoveAll")
          /\ RanBefore("file.Close", "os.RemoveAll")
    /\ (ret.op = "Lock" /\ Succeeded("os.RemoveAll"))
       => \/ IsArchive(fs[ret.path])
          \/ IsArchive(fs[ArchivePath(ret.path)])

\* C14: a Lock of a directory with useMaster = false derives its key from the
\* password and a fresh salt and succeeds, leaving the record; the Unlock that
\* follows with the same password derives the same key and succeeds.
C14_CustomPasswordKeyIsRederived ==
    /\ (ret.op = "Lock" /\ ret.isDir /\ ~ret.useMaster /\ ret.fault = "none")
       => /\ ret.err = "nil"
          /\ ret.key # NoKey
          /\ ret.key.pw = ret.password
          /\ HasRecord(ret.path)
    /\ (UnlockAfterLock /\ ~ret.prev.useMaster /\ ret.password = ret.prev.password)
       => /\ ret.key = ret.prev.key
          /\ ret.err = "nil"

\* C15: the key a Lock or an Unlock with useMaster encrypts or decrypts the
\* directory with is the master key, the key the store was opened with.
C15_MasterLockUsesMasterKey ==
    (ret.op \in {"Lock", "Unlock"} /\ ret.useMaster /\ ret.key # NoKey)
    => ret.key = enc

(***************************************************************************)
(* Claims about the vault (checked under SpecVault)                        *)
(***************************************************************************)
\* C21: Delete and Update of a key that is not in the vault return the error
\* "not found" and leave the store as it was; no Update adds a key to the
\* vault.
C21_MissingKeyIsAnErrorAndNothingIsCreated ==
    /\ (ret.op \in {"Delete", "Update"} /\ ~ret.existed)
       => (ret.err = "not found" /\ ret.same)
    /\ (ret.op = "Update" /\ ~ret.existed) => ret.key \notin DOMAIN db["vault"]

\* An Update of a key the vault does not hold, while it holds another.
C21_Witness ==
    /\ ret.op = "Update"
    /\ ~ret.existed
    /\ ret.fault = "none"
    /\ isValidFormat(ret.args.format)
    /\ DOMAIN db["vault"] # {}

\* The vault entries the store holds that read back without error.
StoredEntries ==
    {DBGet(db, enc, "vault", k, "VaultEntry").val :
        k \in {kk \in DOMAIN db["vault"] :
                  DBGet(db, enc, "vault", kk, "VaultEntry").err = "nil"}}

\* C22: every entry in the vault has one of the formats json, yaml, text,
\* and a Set or an Update given another format fails with "invalid format"
\* and leaves the store as it was.
C22_StoredFormatsAreValid ==
    /\ \A entry \in StoredEntries : isValidFormat(entry.Format)
    /\ (/\ ret.op = "Set" \/ (ret.op = "Update" /\ ret.existed)
        /\ ~isValidFormat(ret.args.format))
       => (ret.err = "invalid format" /\ ret.same)

\* The tags of a list without the repetitions: each tag where it first occurs.
RECURSIVE FirstOccurrences(_)
FirstOccurrences(tags) ==
    IF tags = <<>> THEN <<>>
    ELSE LET front == SubSeq(tags, 1, Len(tags) - 1)
             last == tags[Len(tags)]
         IN  IF \E i \in 1..Len(front) : front[i] = last
             THEN FirstOccurrences(front)
             ELSE Append(FirstOccurrences(front), last)

\* What Get returns for the key of the last call, in the present store.
GetNow == VMGet(db, enc, "n2", now + 1, ret.key, "none")

\* C23 as stated: after a successful Update, Get returns the new value,
\* format and description, the given tags in the given order, and the key and
\* createdAt the entry had.
C23_GetAfterUpdateReturnsGivenTags ==
    (ret.op = "Update" /\ ret.err = "nil")
    => /\ GetNow.err = "nil"
       /\ GetNow.entry.Value = ret.args.value
       /\ GetNow.entry.Format = ret.args.format
       /\ GetNow.entry.Description = ret.args.description
       /\ GetNow.entry.Tags = ret.args.tags
       /\ GetNow.entry.Key = ret.prior.val.Key
       /\ GetNow.entry.CreatedAt = ret.prior.val.CreatedAt

\* C23 amended: after a successful Update, Get returns the new value, format
\* and description, the given tags without repetitions (each tag where it
\* first occurs, the old tags gone), and the key and createdAt the entry had.
C23_GetAfterUpdateReturnsNewFields ==
    (ret.op = "Update" /\ ret.err = "nil")
    => /\ GetNow.err = "nil"
       /\ GetNow.entry.Value = ret.args.value
       /\ GetNow.entry.Format = ret.args.format
       /\ GetNow.entry.Description = ret.args.description
       /\ GetNow.entry.Tags = FirstOccurrences(ret.args.tags)
       /\ GetNow.entry.Key = ret.prior.val.Key
       /\ GetNow.entry.CreatedAt = ret.prior.val.CreatedAt

\* A successful Update, later than the entry was created, that gave tags
\* other than the ones the entry had.
C23_Witness ==
    /\ ret.op = "Update"
    /\ ret.err = "nil"
    /\ ret.prior.val.Tags # <<>>
    /\ ret.args.tags # <<>>
    /\ FirstOccurrences(ret.args.tags) # ret.prior.val.Tags
    /\ ret.prior.val.CreatedAt < now

\* C28: a Get or a List inside which a write to the store or the decryption
\* of a record failed returns an error.
C28_VaultReadsReportInnerFailures ==
    (/\ ret.op \in {"Get", "List"}
     /\ \/ \E i \in 1..Len(ret.wrote) : ret.wrote[i] \notin {"nil", "none"}
        \/ \E i \in 1..Len(ret.skipped) : ret.skipped[i] = "failed to decrypt data")
    => ret.err # "nil"

(***************************************************************************)
(* Claims about the commands (checked under SpecCli)                       *)
(***************************************************************************)
\* C27: a command that goes on to open the store has called GetMasterKey and
\* opens the store with the key it returned; a command whose GetMasterKey
\* failed returns that error and does not open the store.
C27_StoreOpenedWithKeyFromGetMasterKey ==
    ret.op \in {"vault list", "backup create"}
    => /\ ret.triedOpen => (ret.called /\ ret.keyErr = "nil" /\ ret.openedWith = ret.key)
       /\ (ret.called /\ ret.keyErr # "nil") => (ret.err = ret.keyErr /\ ~ret.triedOpen)

(***************************************************************************)
(* Claims about commands running at the same time (checked under SpecProc) *)
(***************************************************************************)
\* C25: no two processes have the same store open at the same time, and a
\* NewDatabase on a store another process holds does not wait beyond the
\* timeout: a process waiting for the file has made fewer attempts than the
\* timeout allows, and a NewDatabase that failed with "failed to open
\* database" left the store to the process that holds it.
C25_OneProcessHoldsTheStore ==
    /\ \A p, q \in Procs :
          (p # q /\ HoldsStore(p) /\ HoldsStore(q))
          => procs.of[p].dir # procs.of[q].dir
    /\ \A p \in Procs :
          procs.of[p].pc = "opening" => procs.of[p].waited < FlockAttempts
    /\ (ret.op = "NewDatabase" /\ ret.err = "failed to open database")
       => \E q \in Procs \ {ret.proc} : HoldsStore(q)

\* A NewDatabase timed out on a store that another process has open.
C25_Witness ==
    /\ ret.op = "NewDatabase"
    /\ ret.err = "failed to open database"
    /\ \E q \in Procs \ {ret.proc} : procs.of[q].pc = "open"

\* C26: no two Lock or Unlock transforms run on the same path at the same
\* time.
C26_TransformsOnAPathNeverInterleave ==
    \A p, q \in Procs :
       (p # q /\ InTransform(p) /\ InTransform(q))
       => procs.of[p].path # procs.of[q].path

(***************************************************************************)
(* Claims about the encryption primitive (checked under SpecCrypto)        *)
(***************************************************************************)
\* C29: Decrypt under the key a blob was encrypted with returns the
\* plaintext that was encrypted, for every plaintext and 32-byte key; and
\* NewEncryptor returns an error and no Encryptor for every key whose
\* length is not 32, and accepts a key of 32 bytes.
C29_RoundTripAndKeySize ==
    /\ (ret.op = "Decrypt" /\ ret.sealed # NoBlob /\ ret.blob = ret.sealed
          /\ ret.key = ret.sealed.ct.k)
       => (ret.err = "nil" /\ ret.out = ret.plain)
    /\ ret.op = "NewEncryptor"
       => /\ ret.key.len # KeySize => (ret.err # "nil" /\ enc = NoKey)
          /\ ret.key.len = KeySize => (ret.err = "nil" /\ enc = ret.key)

\* A blob came back as its plaintext after NewEncryptor had refused a
\* 16-byte and a 33-byte key.
C29_Witness ==
    /\ ret.op = "Decrypt"
    /\ ret.blob = ret.sealed
    /\ ret.err = "nil"
    /\ ret.out = ret.plain
    /\ ret.plain = Bytes("raw", [text |-> "hello"])
    /\ {16, 33} \subseteq ret.refused

\* C30: Decrypt, and decryptContent, under the key a blob was encrypted with,
\* of a blob that differs from it in the nonce, the ciphertext or the tag or
\* that is shorter than a nonce, returns an error and no plaintext.
C30_TamperedBlobIsRejected ==
    (ret.op \in {"Decrypt", "decryptContent"} /\ ret.sealed # NoBlob
       /\ ret.blob # ret.sealed /\ ret.key = ret.sealed.ct.k)
    => (ret.err # "nil" /\ ret.out = NoBytes)

\* A blob with a changed tag was refused by Decrypt under its own key.
C30_Witness ==
    /\ ret.op = "Decrypt"
    /\ ret.sealed # NoBlob
    /\ ret.key = ret.sealed.ct.k
    /\ ret.blob = Tamper(ret.sealed, "tag")
    /\ ret.err = "failed to decrypt"
    /\ ret.out = NoBytes

C33_OnlySuccessfulCallsChangeTheState ==
    [][\A p \in LockPaths :
          (ret'.op \in {"Lock", "Unlock"} /\ ret'.path = p)
          => /\ (ret'.op = "Unlock" /\ ~HasRecord(p))
                => (ret'.err = "not locked" /\ fs' = fs /\ db' = db)
             /\ (ret'.op = "Lock" /\ fs[p].kind # "dir")
                => (ret'.err # "nil" /\ fs' = fs /\ db' = db)
             /\ ret'.err # "nil" => (fs' = fs /\ db' = db)
             /\ (ret'.op = "Lock" /\ ret'.err = "nil")
                => (IsArchive(fs'[p]) /\ p \in DOMAIN db'["locked_dirs"])
             /\ (ret'.op = "Unlock" /\ ret'.err = "nil")
                => /\ HasRecord(p)
                   /\ fs'[p].kind = "dir"
                   /\ p \notin DOMAIN db'["locked_dirs"]]_vars

(***************************************************************************)
(* Claims about interrupted operations (checked under SpecCrash)           *)
(***************************************************************************)
WholeAt(node, before) ==
    \/ node = before
    \/ /\ before.kind = "dir"
       /\ node.kind = "file"
       /\ node.content.kind = "zip"
       /\ DOMAIN node.content.body.entries = DOMAIN before.tree.files
    \/ /\ before.kind = "file"
       /\ node.kind = "dir"
       /\ DOMAIN node.tree.files = DOMAIN before.content.body.entries

\* C32: after a Lock or an Unlock that was killed at any point, the path
\* holds the whole directory or the whole archive: what it held before, or
\* the finished result of the operation; it is never missing, a directory
\* with files gone, or an archive that was not finished.
C32_KilledOperationLeavesDirectoryOrArchive ==
    ret.op \in {"Lock killed", "Unlock killed"}
    => WholeAt(fs[ret.path], ret.before)

====
